---- MODULE Spec2Model ----
(***************************************************************************)
(* Model of the fitbit-agent conversation loop (pkg/agent), its caller     *)
(* runAgent (cmd), and the tool-call protocol parser of the two LLM        *)
(* providers (pkg/llm).                                                    *)
(*                                                                         *)
(* Texts are sequences of fragments.  A fragment is a piece of the string  *)
(* that the code's string tests (HasPrefix, Contains, regular expressions) *)
(* never need to look inside.                                              *)
(***************************************************************************)
EXTENDS Integers, Sequences, FiniteSets, TLC

\* ------------------------------------------------------------------------
\* Bounds of the model
\* ------------------------------------------------------------------------
\* LLM requests made by one session
MaxRequests == 2
\* tool calls carried by one model response
MaxCalls == 2

\* ------------------------------------------------------------------------
\* Text helpers (strings package)
\* ------------------------------------------------------------------------
\* strings.HasPrefix
HasPrefix(s, prefix) ==
    /\ Len(prefix) <= Len(s)
    /\ SubSeq(s, 1, Len(prefix)) = prefix

\* strings.ToLower, fragment by fragment
ToLowerFragment(f) ==
    CASE f = "API " -> "api "
      [] f = "API key" -> "api key"
      [] f = "LLM error: " -> "llm error: "
      [] f = "failed to make request to Ollama: " -> "failed to make request to ollama: "
      [] f = "failed to make request to Gemini: " -> "failed to make request to gemini: "
      [] OTHER -> f

ToLower(s) == [i \in 1..Len(s) |-> ToLowerFragment(s[i])]

\* strings.Contains(s, keyword) for a keyword that is a whole fragment
Contains(s, keyword) == \E i \in 1..Len(s) : s[i] = keyword

\* ------------------------------------------------------------------------
\* The collaborators of the loop: registry, tools, LLM provider, console
\* ------------------------------------------------------------------------
\* names registered by autoDiscoverTools that the model uses
RegisteredTools == {"fitbit_log_meal"}
\* names a model response may carry ("ghost" is registered nowhere)
ToolNames == {"fitbit_log_meal", "ghost"}

\* DefaultToolRegistry.GetTool: the found flag
GetToolFound(name) == name \in RegisteredTools

\* what Tool.Execute can return: (result, nil) or ("", err)
ToolOutcomes ==
    { [err |-> FALSE, text |-> <<"Successfully logged">>],
      [err |-> FALSE, text |-> <<"Authentication Required! ", "TOOL_CALL:", " fitbit_login({})">>],
      [err |-> TRUE,  text |-> <<"no food items found">>] }

\* a tool call as the provider hands it to the loop
ToolCall(i, name) == [id |-> i - 1, name |-> name]

CallSeqs == UNION { [1..n -> ToolNames] : n \in 1..MaxCalls }

\* the text of a response that carries the calls names[1..n]
DirectiveText(names) ==
    [i \in 1..Len(names) |-> names[i]]

\* agent.Response values GenerateResponse can return with a nil error
Responses ==
    { [Content |-> <<>>, ToolCalls |-> <<>>],
      [Content |-> <<"Got it!">>, ToolCalls |-> <<>>] }
    \cup
    { [Content |-> <<"TOOL_CALL:">> \o DirectiveText(names),
       ToolCalls |-> [i \in 1..Len(names) |-> ToolCall(i, names[i])]] : names \in CallSeqs }

\* error texts GenerateResponse can return (factory.go handleAPIError and
\* the transport errors of both providers)
ErrQuotaExceeded == <<"API ", "quota", " exceeded">>
ErrAPIKey == <<"invalid ", "API key">>
ErrInvalidRequest == <<"invalid request">>
ErrOllamaTransport == <<"failed to make request to Ollama: ", "connection", " refused">>
ErrGeminiTransport == <<"failed to make request to Gemini: ", "network", " is unreachable">>

LLMErrors ==
    { ErrQuotaExceeded, ErrAPIKey, ErrInvalidRequest,
      ErrOllamaTransport, ErrGeminiTransport }

\* lines the console can deliver
UserInputs == { <<"I had eggs">> }

NoResponse == [Content |-> <<"<nil>">>, ToolCalls |-> <<>>]
NoError == <<>>

\* ------------------------------------------------------------------------
\* State
\* ------------------------------------------------------------------------
VARIABLES
    pc,             \* position of Run / runAgent
    conversation,   \* Run: conversation []Message
    readUserInput,  \* Run: readUserInput
    response,       \* Run: response of the current iteration
    callIdx,        \* Run: position of the range loop over response.ToolCalls
    toolResults,    \* Run: toolResults
    runErr,         \* the error Run returned
    exitCode,       \* runAgent: process outcome, -1 while running
    eof,            \* ConsoleInputProvider: the scanner has hit end of input
    requests,       \* history: one record per GenerateResponse call
    execLog,        \* history: one record per Tool lookup/execution
    inputsRead,     \* history: number of GetInput calls made
    phase,          \* parser: "idle", "input" (arguments chosen) or "done"
    provider,       \* parser: the provider whose ParseToolCalls runs
    text,           \* parser: the response text handed to the parser
    startPos,       \* parser: extractJSONManually's startPos (1-based)
    jsonContent,    \* parser: what extractJSONManually returned
    toolCalls,      \* parser: what ParseToolCalls returned
    tools,          \* registry: DefaultToolRegistry.tools
    mu,             \* registry: DefaultToolRegistry.mu
    gpc,            \* registry: position of each goroutine in its call
    gop,            \* registry: the call each goroutine is in, and its result
    regCalls,       \* registry: number of calls started
    regLog,         \* history: the tools in the order they were stored
    mealPhase,      \* meal tool: "idle", "input" (arguments chosen) or "done"
    value,          \* parseNumberField: value
    fieldName,      \* parseNumberField: fieldName
    numResult,      \* parseNumberField: what it returned
    mealInput,      \* LogMealTool.Execute: mealInput after json.Unmarshal
    mealResult,     \* LogMealTool.Execute: error or parsedFoods
    env,            \* the process environment (os.Getenv / os.Setenv)
    fpc,            \* fitbit tools: position of the Execute under way
    toolInput,      \* fitbit tools: Execute's input json.RawMessage
    rawInput,       \* LogMealTool.Execute: rawInput
    foodIdx,        \* logMealToFitbit: position of the range loop over foods
    posts,          \* history: the requests sent to api.fitbit.com
    logErr,         \* Execute: the error logMealToFitbit returned
    authCode,       \* LoginTool.Execute: authCode
    accessToken,    \* LoginTool.Execute: accessToken
    authenticated,  \* what the latest isAuthenticated call returned
    execOut,        \* fitbit tools: what Execute returned
    files,          \* storage: the per-date files of dataDir
    spc,            \* SaveMealTool.Execute: position
    saveInput,      \* SaveMealTool.Execute: saveInput after json.Unmarshal
    meals,          \* SaveMealTool.Execute: meals
    fileLog,        \* history: one record per os.ReadFile / os.WriteFile
    saveOut,        \* SaveMealTool.Execute: what it returned
    saveCalls       \* storage: number of calls of SaveMealTool.Execute started

agentVars == <<pc, conversation, readUserInput, response, callIdx, toolResults,
               runErr, exitCode, eof, requests, execLog, inputsRead>>

parserVars == <<phase, provider, text, startPos, jsonContent, toolCalls>>

registryVars == <<tools, mu, gpc, gop, regCalls, regLog>>

mealVars == <<mealPhase, value, fieldName, numResult, mealInput, mealResult>>

fitbitVars == <<env, fpc, toolInput, rawInput, foodIdx, posts, logErr, authCode, accessToken,
                authenticated, execOut>>

storageVars == <<files, spc, saveInput, meals, fileLog, saveOut, saveCalls>>

toolVars == <<fitbitVars, storageVars>>

vars == <<agentVars, parserVars, registryVars, mealVars, toolVars>>

Message(role, content) == [Role |-> role, Content |-> content]

\* ------------------------------------------------------------------------
\* InteractiveAgent
\* ------------------------------------------------------------------------
recoverableKeywords ==
    { "quota", "rate limit", "429", "api key", "401", "403",
      "service unavailable", "502", "503", "504", "timeout", "temporary" }

\* faulty variant: the keywords are matched without lowercasing the text
isRecoverableErrorCaseSensitive(err) ==
    \E keyword \in recoverableKeywords : Contains(err, keyword)

\* InteractiveAgent.isRecoverableError
isRecoverableError(err) ==
    \E keyword \in recoverableKeywords : Contains(ToLower(err), keyword)

\* faulty variant: a failed execution hands back the bare error text
executeToolUnprefixed(toolCall, outcome) ==
    IF ~GetToolFound(toolCall.name)
    THEN <<"Error", ": ", "tool '", toolCall.name, "' not found">>
    ELSE outcome.text

\* InteractiveAgent.executeTool; outcome is what tool.Execute returns
executeTool(toolCall, outcome) ==
    IF ~GetToolFound(toolCall.name)
    THEN <<"Error", ": ", "tool '", toolCall.name, "' not found">>
    ELSE IF outcome.err
         THEN <<"Error", " executing tool '", toolCall.name, "': ">> \o outcome.text
         ELSE outcome.text

\* the turn Run appends for one tool result
ToolResultMessage(result) == Message("user", <<"Tool result: ">> \o result)

\* faulty variant: the results are appended last first
ToolResultTurnsReversed(results) ==
    [i \in 1..Len(results) |-> ToolResultMessage(results[Len(results) + 1 - i])]

\* the turns Run appends for the results of one response, in order
ToolResultTurns(results) ==
    [i \in 1..Len(results) |-> ToolResultMessage(results[i])]

\* the turn Run appends for a model response
AssistantMessage(resp) == Message("assistant", resp.Content)

\* faulty variant: the user is asked again unless a result suggests a call
ReadUserInputUnlessSuggested(results) ==
    IF \E i \in 1..Len(results) : Contains(results[i], "TOOL_CALL:")
    THEN FALSE
    ELSE TRUE

\* value of readUserInput after the results of a turn were appended
ReadUserInputAfterResults(results) ==
    IF \E i \in 1..Len(results) : Contains(results[i], "TOOL_CALL:")
    THEN FALSE
    ELSE FALSE

AtLLMCall == pc = "llm" \/ (pc = "top" /\ ~readUserInput)

AgentInit ==
    /\ pc = "top"
    /\ conversation = <<>>
    /\ readUserInput = TRUE
    /\ response = NoResponse
    /\ callIdx = 0
    /\ toolResults = <<>>
    /\ runErr = NoError
    /\ exitCode = -1
    /\ eof = FALSE
    /\ requests = <<>>
    /\ execLog = <<>>
    /\ inputsRead = 0

\* the parser variables while the session loop is what runs
ParserIdle ==
    /\ phase = "idle"
    /\ provider = "none"
    /\ text = <<>>
    /\ startPos = 0
    /\ jsonContent = <<>>
    /\ toolCalls = <<>>

\* goroutines that call the registry
MaxGoroutines == 3

Goroutines == 1..MaxGoroutines

\* the zero value a map lookup yields for an absent key
NoTool == [name |-> "", obj |-> 0]

\* NewDefaultToolRegistry, no call in progress
RegistryInit ==
    /\ tools = [n \in { "fitbit_log_meal", "fitbit_login" } |-> NoTool]
    /\ mu = [w |-> 0, readers |-> {}]
    /\ gpc = [g \in Goroutines |-> "idle"]
    /\ gop = [g \in Goroutines |->
                [op |-> "none", tool |-> NoTool, name |-> "", acc |-> <<>>,
                 lockedAt |-> 0, result |-> <<>>, exists |-> FALSE]]
    /\ regCalls = 0
    /\ regLog = <<>>

\* a float64; d = 0 stands for an infinity (n # 0) or NaN (n = 0)
Rat(n, d) == [n |-> n, d |-> d]

\* a value of type any: nil, float64, int, int64, string, bool,
\* map[string]any or []any
AnyValue(kind, num, str) == [kind |-> kind, num |-> num, str |-> str]

Nil == AnyValue("nil", Rat(0, 1), <<>>)

\* the result of parseNumberField
NumberResult(val, err) == [val |-> val, err |-> err]

\* the zero value of LogMealInput
NoMealInput ==
    [MealType |-> <<>>, Foods |-> <<>>, Toast |-> <<>>, Snacks |-> <<>>,
     Items |-> <<>>, FoodItems |-> <<>>]

\* what Execute has after the parsing of the foods: the error it returns
\* or mealType, allFoods and parsedFoods
MealResult(err, mealType, allFoods, parsedFoods) ==
    [err |-> err, mealType |-> mealType, allFoods |-> allFoods,
     parsedFoods |-> parsedFoods]

\* the meal tool variables while something else is what runs
MealIdle ==
    /\ mealPhase = "idle"
    /\ value = Nil
    /\ fieldName = ""
    /\ numResult = NumberResult(Rat(0, 1), NoError)
    /\ mealInput = NoMealInput
    /\ mealResult = MealResult(NoError, "", <<>>, <<>>)

\* what a tool's Execute returns: (result, nil) or ("", err)
ToolReturn(result, err) == [result |-> result, err |-> err]

\* the variables of the fitbit and storage tools while something else runs
FitbitIdle ==
    /\ env = [FITBIT_ACCESS_TOKEN |-> "", FITBIT_USER_ID |-> "",
              FITBIT_CLIENT_ID |-> "", FITBIT_CLIENT_SECRET |-> ""]
    /\ fpc = "idle"
    /\ toolInput = [kind |-> "text", text |-> <<>>, meal |-> <<>>]
    /\ rawInput = [kind |-> "text", text |-> <<>>, meal |-> <<>>]
    /\ foodIdx = 0
    /\ posts = <<>>
    /\ logErr = NoError
    /\ authCode = ""
    /\ accessToken = ""
    /\ authenticated = FALSE
    /\ execOut = ToolReturn(<<>>, NoError)

StorageIdle ==
    /\ files = <<>>
    /\ spc = "idle"
    /\ saveInput = [MealData |-> "", Date |-> ""]
    /\ meals = <<>>
    /\ fileLog = <<>>
    /\ saveOut = ToolReturn(<<>>, NoError)
    /\ saveCalls = 0

ToolsIdle == FitbitIdle /\ StorageIdle

Init == AgentInit /\ ParserIdle /\ RegistryInit /\ MealIdle /\ ToolsIdle

\* faulty variant: the line read is not appended to the conversation
GetUserInputNotAppending ==
    /\ pc = "top" /\ readUserInput
    /\ ~eof
    /\ \E userInput \in UserInputs : conversation' = conversation
    /\ pc' = "llm"
    /\ inputsRead' = inputsRead + 1
    /\ UNCHANGED <<readUserInput, response, callIdx, toolResults, runErr,
                   exitCode, eof, requests, execLog>>
    /\ UNCHANGED <<parserVars, registryVars, mealVars, toolVars>>

\* Run, loop top with readUserInput set: GetInput delivers a line
GetUserInput ==
    /\ pc = "top" /\ readUserInput
    /\ ~eof
    /\ \E userInput \in UserInputs :
         conversation' = Append(conversation, Message("user", userInput))
    /\ pc' = "llm"
    /\ inputsRead' = inputsRead + 1
    /\ UNCHANGED <<readUserInput, response, callIdx, toolResults, runErr,
                   exitCode, eof, requests, execLog>>
    /\ UNCHANGED <<parserVars, registryVars, mealVars, toolVars>>

\* Run, loop top with readUserInput set: GetInput reports end of input
GetUserInputEOF ==
    /\ pc = "top" /\ readUserInput
    /\ eof' = TRUE
    /\ pc' = "returned"
    /\ runErr' = NoError
    /\ inputsRead' = inputsRead + 1
    /\ UNCHANGED <<conversation, readUserInput, response, callIdx, toolResults,
                   exitCode, requests, execLog>>
    /\ UNCHANGED <<parserVars, registryVars, mealVars, toolVars>>

\* Run: GenerateResponse fails
GenerateResponseErr ==
    /\ AtLLMCall
    /\ Len(requests) < MaxRequests
    /\ \E err \in LLMErrors :
         /\ requests' = Append(requests,
                               [convLen |-> Len(conversation), inputs |-> inputsRead,
                                ok |-> FALSE, err |-> err, resp |-> NoResponse])
         /\ IF isRecoverableError(err)
            THEN /\ pc' = "ack"
                 /\ runErr' = runErr
            ELSE /\ pc' = "returned"
                 /\ runErr' = <<"LLM error: ">> \o err
    /\ UNCHANGED <<conversation, readUserInput, response, callIdx, toolResults,
                   exitCode, eof, execLog, inputsRead>>
    /\ UNCHANGED <<parserVars, registryVars, mealVars, toolVars>>

\* faulty variant: the acknowledgement drops the turn that failed
AcknowledgeDroppingTurn ==
    /\ pc = "ack"
    /\ \E end \in BOOLEAN : eof' = (eof \/ end)
    /\ inputsRead' = inputsRead + 1
    /\ readUserInput' = TRUE
    /\ pc' = "top"
    /\ conversation' = SubSeq(conversation, 1, Len(conversation) - 1)
    /\ UNCHANGED <<response, callIdx, toolResults, runErr,
                   exitCode, requests, execLog>>
    /\ UNCHANGED <<parserVars, registryVars, mealVars, toolVars>>

\* Run: the acknowledgement read after a recoverable error
Acknowledge ==
    /\ pc = "ack"
    /\ \E end \in BOOLEAN : eof' = (eof \/ end)
    /\ inputsRead' = inputsRead + 1
    /\ readUserInput' = TRUE
    /\ pc' = "top"
    /\ UNCHANGED <<conversation, response, callIdx, toolResults, runErr,
                   exitCode, requests, execLog>>
    /\ UNCHANGED <<parserVars, registryVars, mealVars, toolVars>>

\* Run: GenerateResponse succeeds
GenerateResponseOk ==
    /\ AtLLMCall
    /\ Len(requests) < MaxRequests
    /\ \E resp \in Responses :
         /\ requests' = Append(requests,
                               [convLen |-> Len(conversation), inputs |-> inputsRead,
                                ok |-> TRUE, err |-> NoError, resp |-> resp])
         /\ response' = resp
         /\ conversation' = Append(conversation, AssistantMessage(resp))
         /\ toolResults' = <<>>
         /\ IF Len(resp.ToolCalls) = 0
            THEN /\ readUserInput' = TRUE
                 /\ pc' = "top"
                 /\ callIdx' = 0
            ELSE /\ readUserInput' = readUserInput
                 /\ pc' = "exec"
                 /\ callIdx' = 1
    /\ UNCHANGED <<runErr, exitCode, eof, execLog, inputsRead>>
    /\ UNCHANGED <<parserVars, registryVars, mealVars, toolVars>>

\* Run: one iteration of the loop over response.ToolCalls
ExecuteToolStep ==
    /\ pc = "exec"
    /\ callIdx <= Len(response.ToolCalls)
    /\ LET toolCall == response.ToolCalls[callIdx] IN
       \E outcome \in ToolOutcomes :
         /\ GetToolFound(toolCall.name) \/ outcome = CHOOSE o \in ToolOutcomes : TRUE
         /\ toolResults' = Append(toolResults, executeTool(toolCall, outcome))
         /\ execLog' = Append(execLog,
                              [request |-> Len(requests), idx |-> callIdx,
                               call |-> toolCall,
                               found |-> GetToolFound(toolCall.name),
                               failed |-> GetToolFound(toolCall.name) /\ outcome.err,
                               result |-> executeTool(toolCall, outcome)])
    /\ callIdx' = callIdx + 1
    /\ UNCHANGED <<pc, conversation, readUserInput, response, runErr, exitCode,
                   eof, requests, inputsRead>>
    /\ UNCHANGED <<parserVars, registryVars, mealVars, toolVars>>

\* Run: the loop that appends the tool results of the turn
AppendToolResults ==
    /\ pc = "exec"
    /\ callIdx > Len(response.ToolCalls)
    /\ conversation' = conversation \o ToolResultTurns(toolResults)
    /\ readUserInput' = ReadUserInputAfterResults(toolResults)
    /\ pc' = "top"
    /\ UNCHANGED <<response, callIdx, toolResults, runErr, exitCode, eof,
                   requests, execLog, inputsRead>>
    /\ UNCHANGED <<parserVars, registryVars, mealVars, toolVars>>

\* ------------------------------------------------------------------------
\* cmd: runAgent
\* ------------------------------------------------------------------------
agentRecoverableKeywords ==
    recoverableKeywords \cup { "network", "connection" }

\* isRecoverableAgentError
isRecoverableAgentError(err) ==
    \E keyword \in agentRecoverableKeywords : Contains(ToLower(err), keyword)

\* runAgent after agent.Run returned
RunAgentExit ==
    /\ pc = "returned"
    /\ exitCode' = IF runErr = NoError THEN 0
                   ELSE IF isRecoverableAgentError(runErr) THEN 0 ELSE 1
    /\ pc' = "done"
    /\ UNCHANGED <<conversation, readUserInput, response, callIdx, toolResults,
                   runErr, eof, requests, execLog, inputsRead>>
    /\ UNCHANGED <<parserVars, registryVars, mealVars, toolVars>>

Next ==
    \/ GetUserInput
    \/ GetUserInputEOF
    \/ GenerateResponseErr
    \/ Acknowledge
    \/ GenerateResponseOk
    \/ ExecuteToolStep
    \/ AppendToolResults
    \/ RunAgentExit

Spec == Init /\ [][Next]_vars


\* ------------------------------------------------------------------------
\* Tool-call protocol parser: the argument scan
\* ------------------------------------------------------------------------
\* longest text handed to extractJSONManually
MaxTextLen == 6

\* the characters the scan tells apart, a letter and a blank
ScanChars == { "(", ")", "\"", "\\", "x", " " }

TextsUpTo(n) == UNION { [1..k -> ScanChars] : k \in 0..n }

IsSpace(c) == c \in { " ", "\n" }

\* strings.TrimSpace
TrimSpace(s) ==
    LET keep == { i \in 1..Len(s) : ~IsSpace(s[i]) } IN
    IF keep = {} THEN <<>>
    ELSE SubSeq(s, CHOOSE i \in keep : \A j \in keep : i <= j,
                   CHOOSE i \in keep : \A j \in keep : i >= j)

RECURSIVE ScanIgnoringEscapes(_, _, _, _, _)
\* faulty variant of the scan: a backslash is an ordinary character
ScanIgnoringEscapes(t, start, pos, parenCount, inString) ==
    IF pos > Len(t) THEN TrimSpace(SubSeq(t, start + 1, Len(t)))
    ELSE LET char == t[pos] IN
         IF char = "\"" THEN ScanIgnoringEscapes(t, start, pos + 1, parenCount, ~inString)
         ELSE IF ~inString /\ char = "("
              THEN ScanIgnoringEscapes(t, start, pos + 1, parenCount + 1, inString)
         ELSE IF ~inString /\ char = ")"
              THEN IF parenCount - 1 = 0
                   THEN TrimSpace(SubSeq(t, start + 1, pos - 1))
                   ELSE ScanIgnoringEscapes(t, start, pos + 1, parenCount - 1, inString)
         ELSE ScanIgnoringEscapes(t, start, pos + 1, parenCount, inString)

extractJSONIgnoringEscapes(t, start) ==
    IF start > Len(t) \/ start < 1 THEN <<>>
    ELSE IF t[start] # "(" THEN <<>>
    ELSE ScanIgnoringEscapes(t, start, start + 1, 1, FALSE)

RECURSIVE ScanArguments(_, _, _, _, _, _)
\* the for loop of extractJSONManually, from position pos on
ScanArguments(t, start, pos, parenCount, inString, escaped) ==
    IF pos > Len(t) THEN TrimSpace(SubSeq(t, start + 1, Len(t)))
    ELSE LET char == t[pos] IN
         IF escaped THEN ScanArguments(t, start, pos + 1, parenCount, inString, FALSE)
         ELSE IF char = "\\"
              THEN ScanArguments(t, start, pos + 1, parenCount, inString, TRUE)
         ELSE IF char = "\""
              THEN ScanArguments(t, start, pos + 1, parenCount, ~inString, FALSE)
         ELSE IF ~inString /\ char = "("
              THEN ScanArguments(t, start, pos + 1, parenCount + 1, inString, FALSE)
         ELSE IF ~inString /\ char = ")"
              THEN IF parenCount - 1 = 0
                   THEN TrimSpace(SubSeq(t, start + 1, pos - 1))
                   ELSE ScanArguments(t, start, pos + 1, parenCount - 1, inString, FALSE)
         ELSE ScanArguments(t, start, pos + 1, parenCount, inString, FALSE)

RECURSIVE ArgumentsEnd(_, _, _, _, _)
\* the for loop of extractJSONManually: the position of the ")" that ends
\* the arguments opened before pos, the end of the text if none does
ArgumentsEnd(t, pos, parenCount, inString, escaped) ==
    IF pos > Len(t) THEN Len(t)
    ELSE LET char == t[pos] IN
         IF escaped THEN ArgumentsEnd(t, pos + 1, parenCount, inString, FALSE)
         ELSE IF char = "\\"
              THEN ArgumentsEnd(t, pos + 1, parenCount, inString, TRUE)
         ELSE IF char = "\""
              THEN ArgumentsEnd(t, pos + 1, parenCount, ~inString, FALSE)
         ELSE IF ~inString /\ char = "("
              THEN ArgumentsEnd(t, pos + 1, parenCount + 1, inString, FALSE)
         ELSE IF ~inString /\ char = ")"
              THEN IF parenCount - 1 = 0 THEN pos
                   ELSE ArgumentsEnd(t, pos + 1, parenCount - 1, inString, FALSE)
         ELSE ArgumentsEnd(t, pos + 1, parenCount, inString, FALSE)

\* extractJSONManually(text, startPos), positions counted from 1
extractJSONManually(t, start) ==
    IF start > Len(t) \/ start < 1 THEN <<>>
    ELSE IF t[start] # "(" THEN <<>>
    ELSE ScanArguments(t, start, start + 1, 1, FALSE, FALSE)

\* arguments of one call of extractJSONManually
InitExtract ==
    /\ AgentInit
    /\ RegistryInit
    /\ ToolsIdle
    /\ MealIdle
    /\ phase = "input"
    /\ provider = "none"
    /\ text \in TextsUpTo(MaxTextLen)
    /\ startPos \in 1..(Len(text) + 1)
    /\ jsonContent = <<>>
    /\ toolCalls = <<>>

\* one call of extractJSONManually
ExtractJSON ==
    /\ phase = "input"
    /\ jsonContent' = extractJSONManually(text, startPos)
    /\ phase' = "done"
    /\ UNCHANGED <<provider, text, startPos, toolCalls>>
    /\ UNCHANGED <<agentVars, registryVars, mealVars, toolVars>>

NextExtract == ExtractJSON

SpecExtract == InitExtract /\ [][NextExtract]_vars

\* ------------------------------------------------------------------------
\* Tool-call protocol parser: regular expressions over fragments
\* ------------------------------------------------------------------------
\* In a fragment "[fence]" stands for the three backquotes of a code fence.
\* fragments that consist of \w characters only
WordTokens == { "fitbit_log_meal", "ghost", "Call", "with", "x", "n", "input" }

IsWord(c) == c \in WordTokens

RECURSIVE SkipSpace(_, _)
\* \s* from position i: the first position that is not white space
SkipSpace(t, i) ==
    IF i <= Len(t) /\ IsSpace(t[i]) THEN SkipSpace(t, i + 1) ELSE i

RECURSIVE SkipWord(_, _)
\* \w* from position i: the first position that is not a word character
SkipWord(t, i) ==
    IF i <= Len(t) /\ IsWord(t[i]) THEN SkipWord(t, i + 1) ELSE i

RECURSIVE FirstOf(_, _, _)
\* the first position >= i holding fragment c, 0 if there is none
FirstOf(t, i, c) ==
    IF i > Len(t) THEN 0
    ELSE IF t[i] = c THEN i ELSE FirstOf(t, i + 1, c)

NoMatch == [ok |-> FALSE]

\* `TOOL_CALL:\s*(\w+)\s*\(` tried at position i
PrimaryAt(t, i) ==
    IF t[i] # "TOOL_CALL:" THEN NoMatch
    ELSE LET j == SkipSpace(t, i + 1)
             k == SkipWord(t, j)
             l == SkipSpace(t, k)
         IN IF k > j /\ l <= Len(t) /\ t[l] = "("
            THEN [ok |-> TRUE, at |-> i, end |-> l, name |-> SubSeq(t, j, k - 1)]
            ELSE NoMatch

RECURSIVE FindPrimary(_, _)
\* FindAllStringSubmatchIndex of the primary pattern, from position i
FindPrimary(t, i) ==
    IF i > Len(t) THEN <<>>
    ELSE LET m == PrimaryAt(t, i) IN
         IF m.ok THEN <<m>> \o FindPrimary(t, m.end + 1)
         ELSE FindPrimary(t, i + 1)

\* "```tool_call\s*\n([\w_]+)\s*\(([^)]*)\)\s*\n```" tried at position i
FencedAt(t, i) ==
    IF t[i] # "[fence]tool_call" THEN NoMatch
    ELSE LET j == SkipSpace(t, i + 1)
             k == SkipWord(t, j)
             l == SkipSpace(t, k)
         IN IF ~(j > i + 1 /\ t[j - 1] = "\n" /\ k > j /\ l <= Len(t) /\ t[l] = "(")
            THEN NoMatch
            ELSE LET r == FirstOf(t, l + 1, ")")
                     q == SkipSpace(t, r + 1)
                 IN IF r # 0 /\ q > r + 1 /\ t[q - 1] = "\n" /\ q <= Len(t)
                       /\ t[q] \in { "[fence]", "[fence]tool_call" }
                    THEN [ok |-> TRUE, at |-> i, end |-> q,
                          name |-> SubSeq(t, j, k - 1),
                          input |-> SubSeq(t, l + 1, r - 1)]
                    ELSE NoMatch

RECURSIVE FindFenced(_, _)
FindFenced(t, i) ==
    IF i > Len(t) THEN <<>>
    ELSE LET m == FencedAt(t, i) IN
         IF m.ok THEN <<m>> \o FindFenced(t, m.end + 1)
         ELSE FindFenced(t, i + 1)

\* `Call\s+(\w+)\s+with\s+({[^}]*})` tried at position i
ProseAt(t, i) ==
    IF t[i] # "Call" THEN NoMatch
    ELSE LET j == SkipSpace(t, i + 1)
             k == SkipWord(t, j)
             l == SkipSpace(t, k)
             m == SkipSpace(t, l + 1)
         IN IF ~(j > i + 1 /\ k > j /\ l > k /\ l <= Len(t) /\ t[l] = "with"
                 /\ m > l + 1 /\ m <= Len(t) /\ t[m] = "{")
            THEN NoMatch
            ELSE LET r == FirstOf(t, m + 1, "}") IN
                 IF r # 0
                 THEN [ok |-> TRUE, at |-> i, end |-> r,
                       name |-> SubSeq(t, j, k - 1), input |-> SubSeq(t, m, r)]
                 ELSE NoMatch

RECURSIVE FindProse(_, _)
FindProse(t, i) ==
    IF i > Len(t) THEN <<>>
    ELSE LET m == ProseAt(t, i) IN
         IF m.ok THEN <<m>> \o FindProse(t, m.end + 1)
         ELSE FindProse(t, i + 1)

\* `(\w+)\((\{[^}]*\})\)` tried at position i
BareAt(t, i) ==
    IF ~IsWord(t[i]) THEN NoMatch
    ELSE LET k == SkipWord(t, i) IN
         IF ~(k + 1 <= Len(t) /\ t[k] = "(" /\ t[k + 1] = "{") THEN NoMatch
         ELSE LET r == FirstOf(t, k + 2, "}") IN
              IF r # 0 /\ r + 1 <= Len(t) /\ t[r + 1] = ")"
              THEN [ok |-> TRUE, at |-> i, end |-> r + 1,
                    name |-> SubSeq(t, i, k - 1), input |-> SubSeq(t, k + 1, r)]
              ELSE NoMatch

RECURSIVE FindBare(_, _)
FindBare(t, i) ==
    IF i > Len(t) THEN <<>>
    ELSE LET m == BareAt(t, i) IN
         IF m.ok THEN <<m>> \o FindBare(t, m.end + 1)
         ELSE FindBare(t, i + 1)

\* ------------------------------------------------------------------------
\* Tool-call protocol parser: encoding/json and fmt
\* ------------------------------------------------------------------------
\* fragments whose first character may follow a backslash in a JSON string
EscapeOK(c) == c \in { "\"", "\\", "fitbit_log_meal", "n" }

RECURSIVE JSONStringEnd(_, _)
\* inside a JSON string, from position i: the position after the closing
\* quote, 0 if the string is malformed
JSONStringEnd(t, i) ==
    IF i > Len(t) THEN 0
    ELSE IF t[i] = "\"" THEN i + 1
    ELSE IF t[i] = "\n" \/ t[i] = "[bel]" THEN 0
    ELSE IF t[i] = "\\"
         THEN IF i + 1 <= Len(t) /\ EscapeOK(t[i + 1])
              THEN JSONStringEnd(t, i + 2)
              ELSE 0
    ELSE JSONStringEnd(t, i + 1)

RECURSIVE JSONValueEnd(_, _)
RECURSIVE JSONMembersEnd(_, _)
\* a JSON value (an object or a string) from position i, leading white
\* space allowed: the position after it, 0 if there is none
JSONValueEnd(t, i) ==
    LET j == SkipSpace(t, i) IN
    IF j > Len(t) THEN 0
    ELSE IF t[j] = "\"" THEN JSONStringEnd(t, j + 1)
    ELSE IF t[j] = "{"
         THEN LET k == SkipSpace(t, j + 1) IN
              IF k <= Len(t) /\ t[k] = "}" THEN k + 1
              ELSE JSONMembersEnd(t, k)
    ELSE 0

\* the members of an object from position i up to and including its "}"
JSONMembersEnd(t, i) ==
    LET j == SkipSpace(t, i) IN
    IF j > Len(t) \/ t[j] # "\"" THEN 0
    ELSE LET k == JSONStringEnd(t, j + 1) IN
         IF k = 0 THEN 0
         ELSE LET c == SkipSpace(t, k) IN
              IF c > Len(t) \/ t[c] # ":" THEN 0
              ELSE LET v == JSONValueEnd(t, c + 1) IN
                   IF v = 0 THEN 0
                   ELSE LET e == SkipSpace(t, v) IN
                        IF e > Len(t) THEN 0
                        ELSE IF t[e] = "}" THEN e + 1
                        ELSE IF t[e] = "," THEN JSONMembersEnd(t, e + 1)
                        ELSE 0

\* json.Valid
JSONValid(t) ==
    LET e == JSONValueEnd(t, 1) IN
    e # 0 /\ SkipSpace(t, e) > Len(t)

RECURSIVE GoQuoteBody(_)
\* the characters %q writes between the quotes
GoQuoteBody(t) ==
    IF t = <<>> THEN <<>>
    ELSE LET c == Head(t) IN
         (IF c = "\"" THEN <<"\\", "\"">>
          ELSE IF c = "\\" THEN <<"\\", "\\">>
          ELSE IF c = "\n" THEN <<"\\", "n">>
          ELSE IF c = "[bel]" THEN <<"\\", "a">>
          ELSE <<c>>) \o GoQuoteBody(Tail(t))

\* fmt.Sprintf("{\"input\": %q}", jsonContent)
WrapInput(t) ==
    <<"{", "\"", "input", "\"", ":", " ", "\"">> \o GoQuoteBody(t) \o <<"\"", "}">>

\* strings.HasSuffix
HasSuffix(t, c) == Len(t) > 0 /\ t[Len(t)] = c

\* fixCommonJSONIssues
fixCommonJSONIssues(jsonStr) ==
    LET trimmed == TrimSpace(jsonStr) IN
    IF HasSuffix(trimmed, ";")
    THEN TrimSpace(SubSeq(trimmed, 1, Len(trimmed) - 1))
    ELSE trimmed

\* the arguments a request carries for the text inputStr
InputOrWrapped(inputStr) ==
    IF JSONValid(inputStr) THEN inputStr ELSE WrapInput(inputStr)

\* ------------------------------------------------------------------------
\* Tool-call protocol parser: ParseToolCalls
\* ------------------------------------------------------------------------
\* agent.ToolCall; grammar and at record the pattern and the position of
\* the match the request was built from
Request(id, m, inputTokens, grammar) ==
    [ID |-> id, Name |-> m.name, Input |-> inputTokens,
     grammar |-> grammar, at |-> m.at]

\* cleaned argument text of a primary match
PrimaryContent(t, m) == fixCommonJSONIssues(extractJSONManually(t, m.end))

RECURSIVE PrimaryLoop(_, _, _)
\* the loop over the primary matches, from match number i (0-based) on
PrimaryLoop(t, matches, i) ==
    IF i >= Len(matches) THEN <<>>
    ELSE LET m == matches[i + 1]
             content == PrimaryContent(t, m)
         IN IF content = <<>>
            THEN PrimaryLoop(t, matches, i + 1)
            ELSE <<Request(i, m, InputOrWrapped(content), "primary")>>
                 \o PrimaryLoop(t, matches, i + 1)

\* requests of the primary pattern (both providers)
PrimaryCalls(t) == PrimaryLoop(t, FindPrimary(t, 1), 0)

\* requests of the fenced-block pattern (Gemini); calls is toolCalls so far
FencedCalls(t, calls) ==
    LET matches == FindFenced(t, 1) IN
    [i \in 1..Len(matches) |->
        Request(Len(calls) + (i - 1) + (i - 1), matches[i],
                IF matches[i].input = <<>> THEN <<"{", "}">>
                ELSE InputOrWrapped(matches[i].input),
                "fenced")]

\* requests of the prose pattern (both providers)
ProseCalls(t) ==
    LET matches == FindProse(t, 1) IN
    [i \in 1..Len(matches) |->
        Request(i - 1, matches[i], InputOrWrapped(matches[i].input), "prose")]

RECURSIVE BareLoopAnyName(_, _, _)
\* the bare-call loop without the test of the name against the registry
BareLoopAnyName(matches, registered, i) ==
    IF i >= Len(matches) THEN <<>>
    ELSE LET m == matches[i + 1] IN
         IF JSONValid(m.input)
         THEN <<Request(i, m, m.input, "bare")>> \o BareLoopAnyName(matches, registered, i + 1)
         ELSE BareLoopAnyName(matches, registered, i + 1)

RECURSIVE BareLoop(_, _, _)
\* the loop over the bare-call matches, from match number i (0-based) on
BareLoop(matches, registered, i) ==
    IF i >= Len(matches) THEN <<>>
    ELSE LET m == matches[i + 1] IN
         IF m.name \in { <<name>> : name \in registered } /\ JSONValid(m.input)
         THEN <<Request(i, m, m.input, "bare")>> \o BareLoop(matches, registered, i + 1)
         ELSE BareLoop(matches, registered, i + 1)

\* requests of the bare-call pattern (Gemini)
BareCalls(t, registered) == BareLoop(FindBare(t, 1), registered, 0)

\* GeminiProvider.ParseToolCalls; registered is what GetAllTools returns
GeminiParseToolCalls(t, registered) ==
    LET c1 == PrimaryCalls(t)
        c2 == IF Len(c1) = 0 THEN FencedCalls(t, c1) ELSE c1
        c3 == IF Len(c2) = 0 THEN ProseCalls(t) ELSE c2
        c4 == IF Len(c3) = 0 THEN BareCalls(t, registered) ELSE c3
    IN c4

\* DeepSeekProvider.ParseToolCalls
DeepSeekParseToolCalls(t) ==
    LET c1 == PrimaryCalls(t)
        c2 == IF Len(c1) = 0 THEN ProseCalls(t) ELSE c1
    IN c2

\* segments a response text is put together from
MaxSegments == 2

ParseSegments ==
    { <<"TOOL_CALL:", " ", "fitbit_log_meal", "(", "{", "}", ")">>,
      <<"TOOL_CALL:", " ", "fitbit_log_meal", "(", ")">>,
      <<"TOOL_CALL:", "ghost", " ", "(", "x", ")">>,
      <<"TOOL_CALL:", " ", "ghost", "(", " ", "{", "}", ";", " ", ")">>,
      <<"TOOL_CALL:", "fitbit_log_meal", "(", "\"", "TOOL_CALL:", "ghost", "(", "\"", ")">>,
      <<"TOOL_CALL:", " ", "ghost", "(", "{", "\"", "x", "\"", ":", "\"", ")", "\\", "\"", "\"", "}", ")">>,
      <<"[fence]tool_call", "\n", "fitbit_log_meal", "(", "{", "}", ")", "\n", "[fence]">>,
      <<"[fence]tool_call", " ", "\n", "ghost", "(", ")", " ", "\n", "[fence]">>,
      <<"Call", " ", "fitbit_log_meal", " ", "with", " ", "{", "}">>,
      <<"Call", " ", "ghost", " ", "with", " ", "{", "x", "}">>,
      <<"fitbit_log_meal", "(", "{", "}", ")">>,
      <<"ghost", "(", "{", "}", ")">>,
      <<"fitbit_log_meal", "(", "{", "x", "}", ")">>,
      <<"x">> }

RECURSIVE JoinSegments(_)
\* the segments of a text, one blank between two of them
JoinSegments(segs) ==
    IF Len(segs) = 0 THEN <<>>
    ELSE IF Len(segs) = 1 THEN segs[1]
    ELSE segs[1] \o <<" ">> \o JoinSegments(Tail(segs))

ParseTexts ==
    { JoinSegments(segs) : segs \in UNION { [1..n -> ParseSegments] : n \in 1..MaxSegments } }

Providers == { "gemini", "deepseek" }

\* arguments of one call of ParseToolCalls
InitParse ==
    /\ AgentInit
    /\ RegistryInit
    /\ ToolsIdle
    /\ MealIdle
    /\ phase = "input"
    /\ provider \in Providers
    /\ text \in ParseTexts
    /\ startPos = 0
    /\ jsonContent = <<>>
    /\ toolCalls = <<>>

\* one call of GeminiProvider.ParseToolCalls
GeminiParse ==
    /\ phase = "input"
    /\ provider = "gemini"
    /\ toolCalls' = GeminiParseToolCalls(text, RegisteredTools)
    /\ phase' = "done"
    /\ UNCHANGED <<provider, text, startPos, jsonContent>>
    /\ UNCHANGED <<agentVars, registryVars, mealVars, toolVars>>

\* one call of DeepSeekProvider.ParseToolCalls
DeepSeekParse ==
    /\ phase = "input"
    /\ provider = "deepseek"
    /\ toolCalls' = DeepSeekParseToolCalls(text)
    /\ phase' = "done"
    /\ UNCHANGED <<provider, text, startPos, jsonContent>>
    /\ UNCHANGED <<agentVars, registryVars, mealVars, toolVars>>

NextParse == GeminiParse \/ DeepSeekParse

SpecParse == InitParse /\ [][NextParse]_vars

\* ------------------------------------------------------------------------
\* Tool registry: DefaultToolRegistry under concurrent callers
\* ------------------------------------------------------------------------
\* calls of the registry made in one run
MaxRegistryCalls == 3

\* names looked up and registered
RegistryNames == { "fitbit_log_meal", "fitbit_login" }

\* agent.Tool values: two distinct tools share the name fitbit_log_meal
ToolObjects ==
    { [name |-> "fitbit_log_meal", obj |-> 1],
      [name |-> "fitbit_log_meal", obj |-> 2],
      [name |-> "fitbit_login", obj |-> 1] }

\* the calls a goroutine can make
RegistryCalls ==
    { [op |-> "RegisterTool", tool |-> t, name |-> ""] : t \in ToolObjects }
    \cup { [op |-> "GetTool", tool |-> NoTool, name |-> n] : n \in RegistryNames }
    \cup { [op |-> o, tool |-> NoTool, name |-> ""] :
              o \in { "GetAllTools", "GetToolDefinitions" } }

\* goroutine g enters one of the four methods
CallRegistry(g) ==
    /\ gpc[g] \in { "idle", "returned" }
    /\ regCalls < MaxRegistryCalls
    /\ \E c \in RegistryCalls :
         /\ gop' = [gop EXCEPT ![g] =
                      [op |-> c.op, tool |-> c.tool, name |-> c.name, acc |-> <<>>,
                       lockedAt |-> 0, result |-> <<>>, exists |-> FALSE]]
         /\ gpc' = [gpc EXCEPT ![g] =
                      IF c.op = "RegisterTool" THEN "Lock" ELSE "RLock"]
    /\ regCalls' = regCalls + 1
    /\ UNCHANGED <<tools, mu, regLog>>
    /\ UNCHANGED <<agentVars, parserVars, mealVars, toolVars>>

\* r.mu.Lock(): waits until no goroutine holds the lock
Lock(g) ==
    /\ gpc[g] = "Lock"
    /\ mu.w = 0 /\ mu.readers = {}
    /\ mu' = [mu EXCEPT !.w = g]
    /\ gpc' = [gpc EXCEPT ![g] = "store"]
    /\ UNCHANGED <<tools, gop, regCalls, regLog>>
    /\ UNCHANGED <<agentVars, parserVars, mealVars, toolVars>>

\* RegisterTool with the first registration of a name kept
StoreToolFirstWins(g) ==
    /\ gpc[g] = "store"
    /\ tools' = IF tools[gop[g].tool.name] = NoTool
                THEN [tools EXCEPT ![gop[g].tool.name] = gop[g].tool]
                ELSE tools
    /\ regLog' = Append(regLog, gop[g].tool)
    /\ gpc' = [gpc EXCEPT ![g] = "Unlock"]
    /\ UNCHANGED <<mu, gop, regCalls>>
    /\ UNCHANGED <<agentVars, parserVars, mealVars, toolVars>>

\* RegisterTool: r.tools[tool.Name()] = tool
StoreTool(g) ==
    /\ gpc[g] = "store"
    /\ tools' = [tools EXCEPT ![gop[g].tool.name] = gop[g].tool]
    /\ regLog' = Append(regLog, gop[g].tool)
    /\ gpc' = [gpc EXCEPT ![g] = "Unlock"]
    /\ UNCHANGED <<mu, gop, regCalls>>
    /\ UNCHANGED <<agentVars, parserVars, mealVars, toolVars>>

\* the deferred r.mu.Unlock(); RegisterTool returns, it has no result
Unlock(g) ==
    /\ gpc[g] = "Unlock"
    /\ mu' = [mu EXCEPT !.w = 0]
    /\ gpc' = [gpc EXCEPT ![g] = "returned"]
    /\ UNCHANGED <<tools, gop, regCalls, regLog>>
    /\ UNCHANGED <<agentVars, parserVars, mealVars, toolVars>>

\* a read lock that does not wait for the writer
RLockIgnoringWriter(g) ==
    /\ gpc[g] = "RLock"
    /\ mu' = [mu EXCEPT !.readers = @ \cup {g}]
    /\ gop' = [gop EXCEPT ![g].lockedAt = Len(regLog)]
    /\ gpc' = [gpc EXCEPT ![g] = IF gop[g].op = "GetTool" THEN "lookup" ELSE "range"]
    /\ UNCHANGED <<tools, regCalls, regLog>>
    /\ UNCHANGED <<agentVars, parserVars, mealVars, toolVars>>

\* r.mu.RLock(): waits until no writer holds the lock
RLock(g) ==
    /\ gpc[g] = "RLock"
    /\ mu.w = 0
    /\ mu' = [mu EXCEPT !.readers = @ \cup {g}]
    /\ gop' = [gop EXCEPT ![g].lockedAt = Len(regLog)]
    /\ gpc' = [gpc EXCEPT ![g] = IF gop[g].op = "GetTool" THEN "lookup" ELSE "range"]
    /\ UNCHANGED <<tools, regCalls, regLog>>
    /\ UNCHANGED <<agentVars, parserVars, mealVars, toolVars>>

\* GetTool: tool, exists := r.tools[name]
Lookup(g) ==
    /\ gpc[g] = "lookup"
    /\ gop' = [gop EXCEPT ![g].result = <<tools[gop[g].name]>>,
                          ![g].exists = (tools[gop[g].name] # NoTool)]
    /\ gpc' = [gpc EXCEPT ![g] = "RUnlock"]
    /\ UNCHANGED <<tools, mu, regCalls, regLog>>
    /\ UNCHANGED <<agentVars, parserVars, mealVars, toolVars>>

\* keys of r.tools the range loop of goroutine g has not yet delivered
Unvisited(g) ==
    { n \in RegistryNames :
        /\ tools[n] # NoTool
        /\ \A k \in 1..Len(gop[g].acc) : gop[g].acc[k].name # n }

\* GetAllTools, GetToolDefinitions: one iteration of the range loop over
\* r.tools, the entries come in no particular order
RangeNext(g) ==
    /\ gpc[g] = "range"
    /\ \E n \in Unvisited(g) :
         gop' = [gop EXCEPT ![g].acc = Append(@, tools[n])]
    /\ UNCHANGED <<tools, mu, gpc, regCalls, regLog>>
    /\ UNCHANGED <<agentVars, parserVars, mealVars, toolVars>>

\* the range loop is over
RangeDone(g) ==
    /\ gpc[g] = "range"
    /\ Unvisited(g) = {}
    /\ gop' = [gop EXCEPT ![g].result = gop[g].acc]
    /\ gpc' = [gpc EXCEPT ![g] = "RUnlock"]
    /\ UNCHANGED <<tools, mu, regCalls, regLog>>
    /\ UNCHANGED <<agentVars, parserVars, mealVars, toolVars>>

\* the deferred r.mu.RUnlock(); the method returns
RUnlock(g) ==
    /\ gpc[g] = "RUnlock"
    /\ mu' = [mu EXCEPT !.readers = @ \ {g}]
    /\ gpc' = [gpc EXCEPT ![g] = "returned"]
    /\ UNCHANGED <<tools, gop, regCalls, regLog>>
    /\ UNCHANGED <<agentVars, parserVars, mealVars, toolVars>>

InitRegistry == AgentInit /\ ParserIdle /\ RegistryInit /\ MealIdle /\ ToolsIdle

NextRegistry ==
    \E g \in Goroutines :
        \/ CallRegistry(g)
        \/ Lock(g)
        \/ StoreTool(g)
        \/ Unlock(g)
        \/ RLock(g)
        \/ Lookup(g)
        \/ RangeNext(g)
        \/ RangeDone(g)
        \/ RUnlock(g)

SpecRegistry == InitRegistry /\ [][NextRegistry]_vars

\* ------------------------------------------------------------------------
\* Meal tool: parseNumberField
\* ------------------------------------------------------------------------
\* fragments of a number text
MaxNumLen == 4

\* the characters a number text is written with; half and cups are words
NumChars == { "0", "1", "2", "5", ".", "/", " ", "-", "half", "cups" }

Digits == { "0", "1", "2", "5" }

DigitVal(c) ==
    CASE c = "0" -> 0
      [] c = "1" -> 1
      [] c = "2" -> 2
      [] c = "5" -> 5

RECURSIVE DigitRun(_, _)
\* \d* from position i: the first position that is not a digit
DigitRun(t, i) ==
    IF i <= Len(t) /\ t[i] \in Digits THEN DigitRun(t, i + 1) ELSE i

RECURSIVE DigitsValue(_)
\* the number a run of digits writes
DigitsValue(t) ==
    IF t = <<>> THEN 0
    ELSE DigitsValue(SubSeq(t, 1, Len(t) - 1)) * 10 + DigitVal(t[Len(t)])

RECURSIVE Pow10(_)
Pow10(k) == IF k = 0 THEN 1 ELSE 10 * Pow10(k - 1)

\* the float written as intDigits "." fracDigits
DecimalValue(intDigits, fracDigits) ==
    Rat(DigitsValue(intDigits \o fracDigits), Pow10(Len(fracDigits)))

\* v > 0 and v >= 0 on float64; both are false for NaN
Gt0(v) == v.n > 0

Ge0(v) == v.n > 0 \/ (v.n = 0 /\ v.d > 0)

\* strings.ToLower on the words of a number text
ToLowerWord(c) ==
    CASE c = "Half" -> "half"
      [] c = "ZERO" -> "zero"
      [] c = "Two" -> "two"
      [] OTHER -> c

ToLowerText(t) == [i \in 1..Len(t) |-> ToLowerWord(t[i])]

\* strconv.ParseFloat(v, 64): an optional sign, then digits with an
\* optional point, or a point and digits, and nothing else
ParseFloat(v) ==
    LET neg == v # <<>> /\ v[1] = "-"
        body == IF neg THEN Tail(v) ELSE v
        sign == IF neg THEN -1 ELSE 1
        j == DigitRun(body, 1)
        k == DigitRun(body, j + 1)
        bad == [ok |-> FALSE, val |-> Rat(0, 1)]
        good(r) == [ok |-> TRUE, val |-> Rat(sign * r.n, r.d)]
    IN IF body = <<>> THEN bad
       ELSE IF j > Len(body) THEN good(DecimalValue(body, <<>>))
       ELSE IF body[j] # "." \/ k <= Len(body) THEN bad
       ELSE IF j = 1 /\ k = 2 THEN bad
       ELSE good(DecimalValue(SubSeq(body, 1, j - 1), SubSeq(body, j + 1, k - 1)))

\* extractNumberFromText: wordNumbers
wordNumbers ==
    [w \in { "zero", "one", "two", "three", "four", "five", "six", "seven",
             "eight", "nine", "ten", "half", "quarter", "third", "couple",
             "few", "dozen", "pair", "single" } |->
        CASE w = "zero" -> Rat(0, 1)
          [] w = "one" -> Rat(1, 1)
          [] w = "two" -> Rat(2, 1)
          [] w = "three" -> Rat(3, 1)
          [] w = "four" -> Rat(4, 1)
          [] w = "five" -> Rat(5, 1)
          [] w = "six" -> Rat(6, 1)
          [] w = "seven" -> Rat(7, 1)
          [] w = "eight" -> Rat(8, 1)
          [] w = "nine" -> Rat(9, 1)
          [] w = "ten" -> Rat(10, 1)
          [] w = "half" -> Rat(5, 10)
          [] w = "quarter" -> Rat(25, 100)
          [] w = "third" -> Rat(33, 100)
          [] w = "couple" -> Rat(2, 1)
          [] w = "few" -> Rat(3, 1)
          [] w = "dozen" -> Rat(12, 1)
          [] w = "pair" -> Rat(2, 1)
          [] w = "single" -> Rat(1, 1)]

\* `^(\d+)/(\d+)` on text
fractionRe(t) ==
    LET j == DigitRun(t, 1)
        k == DigitRun(t, j + 1)
    IN IF j > 1 /\ j <= Len(t) /\ t[j] = "/" /\ k > j + 1
       THEN [ok |-> TRUE, num |-> SubSeq(t, 1, j - 1), denom |-> SubSeq(t, j + 1, k - 1)]
       ELSE [ok |-> FALSE, num |-> <<>>, denom |-> <<>>]

\* `^(\d+\.?\d*|\d*\.\d+)` on text: the float the match writes
leadingNumberRe(t) ==
    LET j == DigitRun(t, 1)
        k == DigitRun(t, j + 1)
    IN IF j > 1
       THEN IF j <= Len(t) /\ t[j] = "."
            THEN [ok |-> TRUE,
                  val |-> DecimalValue(SubSeq(t, 1, j - 1), SubSeq(t, j + 1, k - 1))]
            ELSE [ok |-> TRUE, val |-> DecimalValue(SubSeq(t, 1, j - 1), <<>>)]
       ELSE IF t # <<>> /\ t[1] = "." /\ k > 2
            THEN [ok |-> TRUE, val |-> DecimalValue(<<>>, SubSeq(t, 2, k - 1))]
            ELSE [ok |-> FALSE, val |-> Rat(0, 1)]

\* extractNumberFromText
extractNumberFromText(numText) ==
    LET t == TrimSpace(ToLowerText(numText))
        f == fractionRe(t)
        m == leadingNumberRe(t)
    IN IF Len(t) = 1 /\ t[1] \in DOMAIN wordNumbers THEN wordNumbers[t[1]]
       ELSE IF f.ok /\ DigitsValue(f.denom) # 0
            THEN Rat(DigitsValue(f.num), DigitsValue(f.denom))
       ELSE IF m.ok THEN m.val
       ELSE Rat(0, 1)

\* parseNumberField accepting an empty string as 0
parseNumberFieldEmptyAsZero(v, field) ==
    CASE v.kind = "nil" ->
           NumberResult(Rat(0, 1), <<field, " is required">>)
      [] v.kind \in { "float64", "int", "int64" } ->
           NumberResult(v.num, NoError)
      [] v.kind = "string" ->
           LET trimmed == TrimSpace(v.str)
               lowered == ToLowerText(trimmed)
               num == extractNumberFromText(lowered)
           IN IF trimmed = <<>> THEN NumberResult(Rat(0, 1), NoError)
              ELSE IF ParseFloat(trimmed).ok
                   THEN NumberResult(ParseFloat(trimmed).val, NoError)
              ELSE IF Gt0(num) THEN NumberResult(num, NoError)
              ELSE NumberResult(Rat(0, 1),
                                <<field, " must be a number, got: ">> \o lowered)
      [] OTHER ->
           NumberResult(Rat(0, 1), <<field, " must be a number, got type: ", v.kind>>)

\* parseNumberField
parseNumberField(v, field) ==
    CASE v.kind = "nil" ->
           NumberResult(Rat(0, 1), <<field, " is required">>)
      [] v.kind \in { "float64", "int", "int64" } ->
           NumberResult(v.num, NoError)
      [] v.kind = "string" ->
           LET trimmed == TrimSpace(v.str)
               lowered == ToLowerText(trimmed)
               num == extractNumberFromText(lowered)
           IN IF trimmed = <<>>
              THEN NumberResult(Rat(0, 1), <<field, " cannot be empty">>)
              ELSE IF ParseFloat(trimmed).ok
                   THEN NumberResult(ParseFloat(trimmed).val, NoError)
              ELSE IF Gt0(num) THEN NumberResult(num, NoError)
              ELSE NumberResult(Rat(0, 1),
                                <<field, " must be a number, got: ">> \o lowered)
      [] OTHER ->
           NumberResult(Rat(0, 1), <<field, " must be a number, got type: ", v.kind>>)

\* spellings of the words of wordNumbers that reach parseNumberField
WordSpellings == DOMAIN wordNumbers \cup { "Half", "ZERO", "Two" }

\* number texts: every text over NumChars, and every word alone or padded
NumberTexts ==
    UNION { [1..k -> NumChars] : k \in 0..MaxNumLen }
    \cup { pre \o <<w>> \o post :
             w \in WordSpellings, pre \in { <<>>, <<" ">> }, post \in { <<>>, <<" ">>, <<" ", "cups">> } }

\* values of a flexible number field
NumberValues ==
    { Nil }
    \cup { AnyValue("float64", r, <<>>) :
             r \in { Rat(0, 1), Rat(2, 1), Rat(5, 2), Rat(-1, 1) } }
    \cup { AnyValue("int", Rat(2, 1), <<>>), AnyValue("int64", Rat(7, 1), <<>>) }
    \cup { AnyValue(k, Rat(0, 1), <<>>) :
             k \in { "bool", "map[string]interface {}", "[]interface {}" } }
    \cup { AnyValue("string", Rat(0, 1), t) : t \in NumberTexts }

FieldNames == { "quantity", "calories", "total_calories" }

\* arguments of one call of parseNumberField
InitNumber ==
    /\ AgentInit
    /\ ParserIdle
    /\ RegistryInit
    /\ ToolsIdle
    /\ mealPhase = "input"
    /\ value \in NumberValues
    /\ fieldName \in FieldNames
    /\ numResult = NumberResult(Rat(0, 1), NoError)
    /\ mealInput = NoMealInput
    /\ mealResult = MealResult(NoError, "", <<>>, <<>>)

\* one call of parseNumberField
ParseNumber ==
    /\ mealPhase = "input"
    /\ numResult' = parseNumberField(value, fieldName)
    /\ mealPhase' = "done"
    /\ UNCHANGED <<value, fieldName, mealInput, mealResult>>
    /\ UNCHANGED <<agentVars, parserVars, registryVars, toolVars>>

NextNumber == ParseNumber

SpecNumber == InitNumber /\ [][NextNumber]_vars

\* ------------------------------------------------------------------------
\* Meal tool: LogMealTool.Execute up to the parsed foods
\* ------------------------------------------------------------------------
\* food items of one meal, all lists together
MaxItems == 3

\* FoodItem after json.Unmarshal; the unit and preparation fields, which no
\* decision of Execute depends on, are left out
FoodItem(names, quantities, calories) ==
    [Name |-> names[1], FoodItem |-> names[2], Item |-> names[3], Food |-> names[4],
     Quantity |-> quantities[1], Amount |-> quantities[2],
     Serving |-> quantities[3], Count |-> quantities[4],
     Calories |-> calories[1], Cals |-> calories[2],
     Cal |-> calories[3], Energy |-> calories[4]]

\* ToLower on the words of a meal type
ToLowerMealWord(c) ==
    CASE c = "Morning" -> "morning"
      [] c = "Breakfast" -> "breakfast"
      [] OTHER -> c

\* normalizeMealType
normalizeMealType(mealType) ==
    LET trimmed == TrimSpace(mealType)
        normalized == IF Len(trimmed) = 1 THEN ToLowerMealWord(trimmed[1]) ELSE ""
    IN CASE normalized \in { "breakfast", "lunch", "dinner", "snack" } -> normalized
         [] normalized \in { "morning", "am" } -> "breakfast"
         [] normalized \in { "noon", "midday", "afternoon", "pm" } -> "lunch"
         [] normalized \in { "evening", "night", "supper" } -> "dinner"
         [] normalized \in { "snacking", "treat", "dessert" } -> "snack"
         [] OTHER -> ""

\* collectAllFoods with the items list ahead of the toast list
collectAllFoodsItemsFirst(input) ==
    input.Foods \o input.Items \o input.Toast \o input.Snacks \o input.FoodItems

\* collectAllFoods
collectAllFoods(input) ==
    input.Foods \o input.Toast \o input.Snacks \o input.Items \o input.FoodItems

RECURSIVE FirstNonBlank(_, _)
\* the loop over the name candidates, from candidate i on
FirstNonBlank(candidates, i) ==
    IF i > Len(candidates) THEN <<>>
    ELSE IF TrimSpace(candidates[i]) # <<>> THEN TrimSpace(candidates[i])
    ELSE FirstNonBlank(candidates, i + 1)

\* getAnyFoodName
getAnyFoodName(food) ==
    FirstNonBlank(<<food.Name, food.FoodItem, food.Item, food.Food>>, 1)

RECURSIVE QuantityLoop(_, _)
\* the loop over the quantity candidates, from candidate i on
QuantityLoop(candidates, i) ==
    IF i > Len(candidates) THEN NumberResult(Rat(1, 1), NoError)
    ELSE LET r == parseNumberField(candidates[i], "quantity") IN
         IF candidates[i] # Nil /\ r.err = NoError /\ Gt0(r.val) THEN r
         ELSE QuantityLoop(candidates, i + 1)

\* getAnyQuantity taking the first field that is present, 1.0 if it does
\* not parse to a positive number
getAnyQuantityFirstPresent(food) ==
    LET candidates == <<food.Quantity, food.Amount, food.Serving, food.Count>>
        present == { i \in 1..4 : candidates[i] # Nil }
        first == CHOOSE i \in present : \A j \in present : i <= j
    IN IF present = {} THEN NumberResult(Rat(1, 1), NoError)
       ELSE QuantityLoop(<<candidates[first]>>, 1)

\* getAnyQuantity
getAnyQuantity(food) ==
    QuantityLoop(<<food.Quantity, food.Amount, food.Serving, food.Count>>, 1)

CaloriesError == <<"calories must be specified">>

RECURSIVE CaloriesLoop(_, _)
\* the loop over the calorie candidates, from candidate i on
CaloriesLoop(candidates, i) ==
    IF i > Len(candidates) THEN NumberResult(Rat(0, 1), CaloriesError)
    ELSE LET r == parseNumberField(candidates[i], "calories") IN
         IF candidates[i] # Nil /\ r.err = NoError /\ Ge0(r.val) THEN r
         ELSE CaloriesLoop(candidates, i + 1)

\* getAnyCalories with 0 for an item that has no calories
getAnyCaloriesDefaultZero(food) ==
    LET r == CaloriesLoop(<<food.Calories, food.Cals, food.Cal, food.Energy>>, 1) IN
    IF r.err = NoError THEN r ELSE NumberResult(Rat(0, 1), NoError)

\* getAnyCalories
getAnyCalories(food) ==
    CaloriesLoop(<<food.Calories, food.Cals, food.Cal, food.Energy>>, 1)

\* ParsedFoodItem, without the unit
ParsedFoodItem(name, quantity, calories) ==
    [Name |-> name, Quantity |-> quantity, Calories |-> calories]

NameError == <<"food item must have a name">>

\* parseFoodItem
parseFoodItem(food) ==
    LET name == getAnyFoodName(food)
        quantity == getAnyQuantity(food)
        calories == getAnyCalories(food)
        none == ParsedFoodItem(name, Rat(0, 1), Rat(0, 1))
    IN IF name = <<>> THEN [err |-> NameError, parsed |-> none]
       ELSE IF quantity.err # NoError THEN [err |-> quantity.err, parsed |-> none]
       ELSE IF calories.err # NoError
            THEN [err |-> calories.err,
                  parsed |-> ParsedFoodItem(name, quantity.val, Rat(0, 1))]
       ELSE [err |-> NoError,
             parsed |-> ParsedFoodItem(name, quantity.val, calories.val)]

\* %d of a position in the food list
Itoa(i) ==
    CASE i = 1 -> "1" [] i = 2 -> "2" [] i = 3 -> "3" [] i = 4 -> "4"
      [] i = 5 -> "5" [] OTHER -> "many"

\* fmt.Errorf("error parsing food item %d (%s): %w", i+1, getAnyFoodName(food), err)
ItemError(position, food, err) ==
    <<"error parsing food item ", Itoa(position), " (">>
    \o getAnyFoodName(food) \o <<"): ">> \o err

MealTypeError == <<"invalid or missing meal type">>

NoFoodsError == <<"no food items found">>

RECURSIVE ParseFoodsLoop(_, _, _, _)
\* Execute: the loop over allFoods, from item i (1-based) on
ParseFoodsLoop(mealType, allFoods, i, parsedFoods) ==
    IF i > Len(allFoods) THEN MealResult(NoError, mealType, allFoods, parsedFoods)
    ELSE LET r == parseFoodItem(allFoods[i]) IN
         IF r.err # NoError
         THEN MealResult(ItemError(i, allFoods[i], r.err), mealType, allFoods, parsedFoods)
         ELSE ParseFoodsLoop(mealType, allFoods, i + 1, Append(parsedFoods, r.parsed))

\* LogMealTool.Execute from the decoded input to parsedFoods
ExecuteParse(input) ==
    LET mealType == normalizeMealType(input.MealType)
        allFoods == collectAllFoods(input)
    IN IF mealType = "" THEN MealResult(MealTypeError, "", <<>>, <<>>)
       ELSE IF Len(allFoods) = 0 THEN MealResult(NoFoodsError, mealType, allFoods, <<>>)
       ELSE ParseFoodsLoop(mealType, allFoods, 1, <<>>)

F(n) == AnyValue("float64", Rat(n, 1), <<>>)

S(str) == AnyValue("string", Rat(0, 1), str)

NoFields == <<Nil, Nil, Nil, Nil>>

\* items the lists of a meal are filled with: two complete ones that use
\* different synonyms, one without calories and one without a name
ListItems ==
    { FoodItem(<<<<"eggs">>, <<>>, <<>>, <<>>>>, <<F(2), Nil, Nil, Nil>>,
               <<F(140), Nil, Nil, Nil>>),
      FoodItem(<<<<>>, <<" ", "toast">>, <<>>, <<>>>>, <<Nil, Nil, Nil, S(<<"2", " ", "cups">>)>>,
               <<Nil, S(<<"1", "5", "0">>), Nil, Nil>>),
      FoodItem(<<<<>>, <<>>, <<"jam">>, <<>>>>, <<Nil, S(<<"two">>), Nil, Nil>>, NoFields),
      FoodItem(<<<<" ">>, <<>>, <<>>, <<>>>>, NoFields, <<F(100), Nil, Nil, Nil>>) }

\* values of a quantity or calorie field
ProbeValues ==
    { Nil, F(0), F(2), F(-1), S(<<"0">>), S(<<"zero">>), S(<<"half">>),
      S(<<"cups">>), S(<<>>), AnyValue("bool", Rat(0, 1), <<>>) }

\* a named item with the values q in its quantity fields
QuantityProbe(q) ==
    FoodItem(<<<<"eggs">>, <<>>, <<>>, <<>>>>, q, <<F(140), Nil, Nil, Nil>>)

\* a named item with the values c in its calorie fields
CaloriesProbe(c) ==
    FoodItem(<<<<>>, <<>>, <<>>, <<"eggs">>>>, NoFields, c)

RECURSIVE ItemsOfList(_, _, _)
\* the items of its that list number j holds, in order
ItemsOfList(its, list, j) ==
    IF its = <<>> THEN <<>>
    ELSE IF Head(list) = j
         THEN <<Head(its)>> \o ItemsOfList(Tail(its), Tail(list), j)
         ELSE ItemsOfList(Tail(its), Tail(list), j)

\* LogMealInput after json.Unmarshal: item its[i] is in list number list[i]
LogMealInput(mealType, its, list) ==
    [MealType |-> mealType,
     Foods |-> ItemsOfList(its, list, 1), Toast |-> ItemsOfList(its, list, 2),
     Snacks |-> ItemsOfList(its, list, 3), Items |-> ItemsOfList(its, list, 4),
     FoodItems |-> ItemsOfList(its, list, 5)]

MealTypes == { <<"breakfast">>, <<" ", "Morning">>, <<"brunch">> }

\* the decoded input of one call of Execute: up to MaxItems items spread
\* over the five lists, or one item that probes the quantity or the
\* calorie fields
InitMeal ==
    /\ AgentInit
    /\ ParserIdle
    /\ RegistryInit
    /\ ToolsIdle
    /\ mealPhase = "input"
    /\ value = Nil
    /\ fieldName = ""
    /\ numResult = NumberResult(Rat(0, 1), NoError)
    /\ \/ \E mealType \in MealTypes, n \in 0..MaxItems :
            \E its \in [1..n -> ListItems], list \in [1..n -> 1..5] :
                /\ \A i \in 1..(n - 1) : list[i] <= list[i + 1]
                /\ mealInput = LogMealInput(mealType, its, list)
       \/ \E q \in [1..4 -> ProbeValues] :
            mealInput = LogMealInput(<<"breakfast">>, <<QuantityProbe(q)>>, <<1>>)
       \/ \E c \in [1..4 -> ProbeValues] :
            mealInput = LogMealInput(<<"breakfast">>, <<CaloriesProbe(c)>>, <<1>>)
    /\ mealResult = MealResult(NoError, "", <<>>, <<>>)

\* one call of Execute, up to the parsed foods
ExecuteLogMeal ==
    /\ mealPhase = "input"
    /\ mealResult' = ExecuteParse(mealInput)
    /\ mealPhase' = "done"
    /\ UNCHANGED <<value, fieldName, numResult, mealInput>>
    /\ UNCHANGED <<agentVars, parserVars, registryVars, toolVars>>

NextMeal == ExecuteLogMeal

SpecMeal == InitMeal /\ [][NextMeal]_vars

\* ------------------------------------------------------------------------
\* Meal tool: LogMealTool.Execute, the whole call
\* ------------------------------------------------------------------------
\* A json.RawMessage is either a text of fragments, decoded by the
\* operators below, or the JSON text of a meal object, given by the
\* LogMealInput it decodes to (such an object has no key "input").
RawText(t) == [kind |-> "text", text |-> t, meal |-> <<>>]

RawMeal(m) == [kind |-> "meal", text |-> <<>>, meal |-> m]

\* LogMealInput with the field TotalCalories
WithTotal(meal, total) ==
    [f \in DOMAIN meal \cup { "TotalCalories" } |->
        IF f = "TotalCalories" THEN total ELSE meal[f]]

RECURSIVE JSONUnquote(_)
\* encoding/json: the string that the body of a JSON string literal denotes
JSONUnquote(t) ==
    IF t = <<>> THEN <<>>
    ELSE IF Head(t) = "\\" /\ Len(t) >= 2
         THEN (IF t[2] = "n" THEN <<"\n">>
               ELSE IF t[2] = "fitbit_log_meal" THEN <<"\f", "itbit_log_meal">>
               ELSE <<t[2]>>) \o JSONUnquote(SubSeq(t, 3, Len(t)))
    ELSE <<Head(t)>> \o JSONUnquote(Tail(t))

RECURSIVE InputMember(_, _, _)
\* json.Unmarshal into struct{ Input string `json:"input"` }: the members
\* of a valid object from position i on; acc is the struct and whether a
\* value of the key had the wrong type
InputMember(t, i, acc) ==
    LET j == SkipSpace(t, i) IN
    IF t[j] = "}" THEN acc
    ELSE LET k == JSONStringEnd(t, j + 1)
             key == JSONUnquote(SubSeq(t, j + 1, k - 2))
             c == SkipSpace(t, k)
             vs == SkipSpace(t, c + 1)
             v == JSONValueEnd(t, c + 1)
             e == SkipSpace(t, v)
             next == IF key # <<"input">> THEN acc
                     ELSE IF t[vs] = "\""
                          THEN [acc EXCEPT !.Input = JSONUnquote(SubSeq(t, vs + 1, v - 2))]
                          ELSE [acc EXCEPT !.err = TRUE]
         IN IF t[e] = "," THEN InputMember(t, e + 1, next) ELSE next

\* json.Unmarshal(input, &wrappedInput)
UnmarshalWrapped(raw) ==
    IF raw.kind = "meal" THEN [err |-> FALSE, Input |-> <<>>]
    ELSE IF ~JSONValid(raw.text) THEN [err |-> TRUE, Input |-> <<>>]
    ELSE LET j == SkipSpace(raw.text, 1) IN
         IF raw.text[j] # "{" THEN [err |-> TRUE, Input |-> <<>>]
         ELSE InputMember(raw.text, j + 1, [err |-> FALSE, Input |-> <<>>])

\* json.Unmarshal(rawInput, &mealInput); the objects written as fragments
\* have none of the keys of LogMealInput
UnmarshalMeal(raw) ==
    IF raw.kind = "meal" THEN [err |-> NoError, meal |-> raw.meal]
    ELSE IF ~JSONValid(raw.text)
         THEN [err |-> <<"invalid character">>, meal |-> WithTotal(NoMealInput, Nil)]
    ELSE IF raw.text[SkipSpace(raw.text, 1)] # "{"
         THEN [err |-> <<"json: cannot unmarshal string into Go value of type fitbit.LogMealInput">>,
               meal |-> WithTotal(NoMealInput, Nil)]
    ELSE [err |-> NoError, meal |-> WithTotal(NoMealInput, Nil)]

\* the error for a wrapped text that is not JSON (the cut of the preview
\* after 100 bytes is beyond the texts modelled)
TruncatedError(inputPreview) ==
    <<"received truncated or invalid JSON input. Please ensure the complete meal data is provided. Got: ">>
    \o inputPreview

\* fmt.Errorf("failed to parse meal input: %w. Raw input: %s", err, string(rawInput))
ParseInputError(err, raw) ==
    <<"failed to parse meal input: ">> \o err \o <<". Raw input: ">> \o raw.text

\* the result returned when no access token is set
AuthRequired ==
    <<"Authentication Required!", "\n", "TOOL_CALL:", " ", "fitbit_login", "(", "{", "}", ")",
      "\n", "After authentication, I'll log your meal automatically.">>

\* the result returned when the remote call was refused as unauthorized
AuthExpired ==
    <<"Authentication Expired!", "\n", "TOOL_CALL:", " ", "fitbit_login", "(", "{", "}", ")",
      "\n", "After re-authentication, I'll log your meal automatically.">>

\* LogMealTool.isAuthenticated; LoadConfig has run at start-up and finds
\* nothing new to load
isAuthenticated == env.FITBIT_ACCESS_TOKEN # ""

\* a + b on float64, exact
RatAdd(a, b) == Rat(a.n * b.d + b.n * a.d, a.d * b.d)

RECURSIVE SumCalories(_)
\* totalCalories of Execute
SumCalories(foods) ==
    IF foods = <<>> THEN Rat(0, 1)
    ELSE RatAdd(SumCalories(SubSeq(foods, 1, Len(foods) - 1)), foods[Len(foods)].Calories)

\* the allowed difference between the computed and the expected total
CalorieTolerance == 50

\* diff < -50 || diff > 50 for diff := totalCalories - expectedTotal
OutOfTolerance(totalCalories, expectedTotal) ==
    LET diff == RatAdd(totalCalories, Rat(-expectedTotal.n, expectedTotal.d)) IN
    \/ diff.n < -CalorieTolerance * diff.d
    \/ diff.n > CalorieTolerance * diff.d

\* the digits of %.0f are not modelled
MismatchError ==
    <<"calorie mismatch", ": calculated ", "%.0f", " calories but expected ", "%.0f", " calories">>

\* Execute: the check of the sum against total_calories; TRUE if it fails
TotalCheckFails(parsedFoods, declared) ==
    LET expected == parseNumberField(declared, "total_calories") IN
    /\ declared # Nil
    /\ expected.err = NoError
    /\ Gt0(expected.val)
    /\ OutOfTolerance(SumCalories(parsedFoods), expected.val)

\* status codes the API answers with
HTTPStatuses == { 200, 201, 401, 500 }

\* %d of a status code
StatusText(code) ==
    CASE code = 200 -> "200" [] code = 201 -> "201"
      [] code = 401 -> "401" [] code = 500 -> "500" [] OTHER -> "?"

\* the error of client.Do when no response arrives
TransportError(userID) ==
    <<"Post \"https://api.fitbit.com/1/user/", userID, "/foods/log.json\": ",
      "dial tcp: connect: connection refused">>

\* what client.Do returns for one request
PostResponses(userID) ==
    { [err |-> NoError, status |-> code] : code \in HTTPStatuses }
    \cup { [err |-> TransportError(userID), status |-> 0] }

\* logMealToFitbit: the error one iteration returns for the response resp,
\* NoError if the loop goes on
PostError(food, resp) ==
    IF resp.err # NoError
    THEN <<"failed to log ">> \o food.Name \o <<" to Fitbit: ">> \o resp.err
    ELSE IF resp.status = 401
         THEN <<"unauthorized", ": access token may be expired (", "401", ")">>
    ELSE IF resp.status < 200 \/ resp.status >= 300
         THEN <<"failed to log ">> \o food.Name \o <<": HTTP ", StatusText(resp.status)>>
    ELSE NoError

RECURSIVE FoodList(_)
\* the lines of the success result, one per food
FoodList(foods) ==
    IF foods = <<>> THEN <<>>
    ELSE <<"\n", "- ">> \o Head(foods).Name \o FoodList(Tail(foods))

\* the result of a meal that was logged
SuccessResult(mealType, foods) ==
    <<"Successfully logged ", mealType, " to Fitbit">> \o FoodList(foods)

\* Execute handing the message about an invalid wrapped text back as a
\* result instead of an error
ExecuteUnwrapMessageAsResult ==
    /\ fpc = "Execute"
    /\ LET wrappedInput == UnmarshalWrapped(toolInput) IN
       IF ~wrappedInput.err /\ wrappedInput.Input # <<>>
       THEN IF JSONValid(wrappedInput.Input)
            THEN /\ rawInput' = RawText(wrappedInput.Input)
                 /\ fpc' = "unmarshal"
                 /\ execOut' = execOut
            ELSE /\ execOut' = ToolReturn(TruncatedError(wrappedInput.Input), NoError)
                 /\ fpc' = "returned"
                 /\ rawInput' = rawInput
       ELSE /\ rawInput' = rawInput
            /\ fpc' = "unmarshal"
            /\ execOut' = execOut
    /\ UNCHANGED <<env, toolInput, foodIdx, posts, logErr, authCode, accessToken,
                   authenticated>>
    /\ UNCHANGED <<agentVars, parserVars, registryVars, mealVars, storageVars>>

\* Execute, lines 428-446: the input wrapped in {"input": "..."}
ExecuteUnwrap ==
    /\ fpc = "Execute"
    /\ LET wrappedInput == UnmarshalWrapped(toolInput) IN
       IF ~wrappedInput.err /\ wrappedInput.Input # <<>>
       THEN IF JSONValid(wrappedInput.Input)
            THEN /\ rawInput' = RawText(wrappedInput.Input)
                 /\ fpc' = "unmarshal"
                 /\ execOut' = execOut
            ELSE /\ execOut' = ToolReturn(<<>>, TruncatedError(wrappedInput.Input))
                 /\ fpc' = "returned"
                 /\ rawInput' = rawInput
       ELSE /\ rawInput' = rawInput
            /\ fpc' = "unmarshal"
            /\ execOut' = execOut
    /\ UNCHANGED <<env, toolInput, foodIdx, posts, logErr, authCode, accessToken,
                   authenticated>>
    /\ UNCHANGED <<agentVars, parserVars, registryVars, mealVars, storageVars>>

\* Execute, lines 448-451
ExecuteUnmarshal ==
    /\ fpc = "unmarshal"
    /\ LET u == UnmarshalMeal(rawInput) IN
       IF u.err # NoError
       THEN /\ execOut' = ToolReturn(<<>>, ParseInputError(u.err, rawInput))
            /\ fpc' = "returned"
            /\ mealInput' = mealInput
       ELSE /\ mealInput' = u.meal
            /\ fpc' = "validate"
            /\ execOut' = execOut
    /\ UNCHANGED <<mealPhase, value, fieldName, numResult, mealResult>>
    /\ UNCHANGED <<env, toolInput, rawInput, foodIdx, posts, logErr, authCode,
                   accessToken, authenticated>>
    /\ UNCHANGED <<agentVars, parserVars, registryVars, storageVars>>

\* Execute going on with the items parsed before the first invalid one
ExecuteValidateLenient ==
    /\ fpc = "validate"
    /\ mealResult' = ExecuteParse(mealInput)
    /\ IF mealResult'.err # NoError /\ mealResult'.parsedFoods = <<>>
       THEN /\ execOut' = ToolReturn(<<>>, mealResult'.err)
            /\ fpc' = "returned"
       ELSE /\ fpc' = "auth"
            /\ execOut' = execOut
    /\ UNCHANGED <<mealPhase, value, fieldName, numResult, mealInput>>
    /\ UNCHANGED <<env, toolInput, rawInput, foodIdx, posts, logErr, authCode,
                   accessToken, authenticated>>
    /\ UNCHANGED <<agentVars, parserVars, registryVars, storageVars>>

\* Execute with the authentication check ahead of the validation
ExecuteValidateAuthFirst ==
    /\ fpc = "validate"
    /\ mealResult' = ExecuteParse(mealInput)
    /\ IF ~isAuthenticated
       THEN /\ execOut' = ToolReturn(AuthRequired, NoError)
            /\ fpc' = "returned"
       ELSE IF mealResult'.err # NoError
       THEN /\ execOut' = ToolReturn(<<>>, mealResult'.err)
            /\ fpc' = "returned"
       ELSE /\ fpc' = "auth"
            /\ execOut' = execOut
    /\ UNCHANGED <<mealPhase, value, fieldName, numResult, mealInput>>
    /\ UNCHANGED <<env, toolInput, rawInput, foodIdx, posts, logErr, authCode,
                   accessToken, authenticated>>
    /\ UNCHANGED <<agentVars, parserVars, registryVars, storageVars>>

\* Execute, lines 453-473: meal type, food lists and the parse loop
ExecuteValidate ==
    /\ fpc = "validate"
    /\ mealResult' = ExecuteParse(mealInput)
    /\ IF mealResult'.err # NoError
       THEN /\ execOut' = ToolReturn(<<>>, mealResult'.err)
            /\ fpc' = "returned"
       ELSE /\ fpc' = "auth"
            /\ execOut' = execOut
    /\ UNCHANGED <<mealPhase, value, fieldName, numResult, mealInput>>
    /\ UNCHANGED <<env, toolInput, rawInput, foodIdx, posts, logErr, authCode,
                   accessToken, authenticated>>
    /\ UNCHANGED <<agentVars, parserVars, registryVars, storageVars>>

\* Execute, lines 475-484
ExecuteAuthCheck ==
    /\ fpc = "auth"
    /\ authenticated' = isAuthenticated
    /\ IF ~isAuthenticated
       THEN /\ execOut' = ToolReturn(AuthRequired, NoError)
            /\ fpc' = "returned"
       ELSE /\ fpc' = "total"
            /\ execOut' = execOut
    /\ UNCHANGED <<env, toolInput, rawInput, foodIdx, posts, logErr, authCode,
                   accessToken>>
    /\ UNCHANGED <<agentVars, parserVars, registryVars, mealVars, storageVars>>

\* Execute, lines 486-501
ExecuteTotalCheck ==
    /\ fpc = "total"
    /\ IF TotalCheckFails(mealResult.parsedFoods, mealInput.TotalCalories)
       THEN /\ execOut' = ToolReturn(<<>>, MismatchError)
            /\ fpc' = "returned"
       ELSE /\ fpc' = "log"
            /\ execOut' = execOut
    /\ UNCHANGED <<env, toolInput, rawInput, foodIdx, posts, logErr, authCode,
                   accessToken, authenticated>>
    /\ UNCHANGED <<agentVars, parserVars, registryVars, mealVars, storageVars>>

\* logMealToFitbit, lines 875-895
LogMealStart ==
    /\ fpc = "log"
    /\ IF env.FITBIT_ACCESS_TOKEN = ""
       THEN /\ logErr' = <<"missing FITBIT_ACCESS_TOKEN">>
            /\ fpc' = "logged"
            /\ foodIdx' = foodIdx
       ELSE IF env.FITBIT_USER_ID = ""
       THEN /\ logErr' = <<"missing FITBIT_USER_ID">>
            /\ fpc' = "logged"
            /\ foodIdx' = foodIdx
       ELSE /\ foodIdx' = 1
            /\ fpc' = "post"
            /\ logErr' = logErr
    /\ UNCHANGED <<env, toolInput, rawInput, posts, authCode, accessToken,
                   authenticated, execOut>>
    /\ UNCHANGED <<agentVars, parserVars, registryVars, mealVars, storageVars>>

\* logMealToFitbit: an iteration that goes on to the next food although
\* the request failed
PostFoodContinuing ==
    /\ fpc = "post"
    /\ foodIdx <= Len(mealResult.parsedFoods)
    /\ LET food == mealResult.parsedFoods[foodIdx] IN
       \E resp \in PostResponses(env.FITBIT_USER_ID) :
         /\ posts' = Append(posts, [method |-> "POST", food |-> food,
                                    mealType |-> mealResult.mealType, resp |-> resp])
         /\ foodIdx' = foodIdx + 1
         /\ logErr' = IF PostError(food, resp) # NoError THEN PostError(food, resp)
                      ELSE logErr
         /\ fpc' = IF foodIdx = Len(mealResult.parsedFoods) /\ logErr' # NoError
                   THEN "logged" ELSE fpc
    /\ UNCHANGED <<env, toolInput, rawInput, authCode, accessToken, authenticated,
                   execOut>>
    /\ UNCHANGED <<agentVars, parserVars, registryVars, mealVars, storageVars>>

\* logMealToFitbit, lines 897-942: one iteration of the loop over foods
PostFood ==
    /\ fpc = "post"
    /\ foodIdx <= Len(mealResult.parsedFoods)
    /\ LET food == mealResult.parsedFoods[foodIdx] IN
       \E resp \in PostResponses(env.FITBIT_USER_ID) :
         /\ posts' = Append(posts, [method |-> "POST", food |-> food,
                                    mealType |-> mealResult.mealType, resp |-> resp])
         /\ IF PostError(food, resp) # NoError
            THEN /\ logErr' = PostError(food, resp)
                 /\ fpc' = "logged"
                 /\ foodIdx' = foodIdx
            ELSE /\ foodIdx' = foodIdx + 1
                 /\ fpc' = fpc
                 /\ logErr' = logErr
    /\ UNCHANGED <<env, toolInput, rawInput, authCode, accessToken, authenticated,
                   execOut>>
    /\ UNCHANGED <<agentVars, parserVars, registryVars, mealVars, storageVars>>

\* logMealToFitbit, line 944: the loop is over
LogMealDone ==
    /\ fpc = "post"
    /\ foodIdx > Len(mealResult.parsedFoods)
    /\ logErr' = NoError
    /\ fpc' = "logged"
    /\ UNCHANGED <<env, toolInput, rawInput, foodIdx, posts, authCode, accessToken,
                   authenticated, execOut>>
    /\ UNCHANGED <<agentVars, parserVars, registryVars, mealVars, storageVars>>

\* Execute, lines 504-550: what is returned after logMealToFitbit
ExecuteFinish ==
    /\ fpc = "logged"
    /\ execOut' =
         IF logErr # NoError
         THEN IF Contains(logErr, "401") \/ Contains(logErr, "unauthorized")
              THEN ToolReturn(AuthExpired, NoError)
              ELSE ToolReturn(<<>>, <<"failed to log meal to Fitbit: ">> \o logErr)
         ELSE ToolReturn(SuccessResult(mealResult.mealType, mealResult.parsedFoods), NoError)
    /\ fpc' = "returned"
    /\ UNCHANGED <<env, toolInput, rawInput, foodIdx, posts, logErr, authCode,
                   accessToken, authenticated>>
    /\ UNCHANGED <<agentVars, parserVars, registryVars, mealVars, storageVars>>

\* food items of one meal in a whole call of Execute
MaxFoods == 2

\* longest argument text the parser hands over
MaxArgLen == 3

\* items of a meal: three complete ones (one named like an error keyword),
\* one without calories and one without a name
LogItems ==
    { FoodItem(<<<<"eggs">>, <<>>, <<>>, <<>>>>, <<F(2), Nil, Nil, Nil>>,
               <<F(100), Nil, Nil, Nil>>),
      FoodItem(<<<<>>, <<" ", "toast">>, <<>>, <<>>>>, NoFields,
               <<Nil, S(<<"5", "0">>), Nil, Nil>>),
      FoodItem(<<<<"unauthorized", " cookie">>, <<>>, <<>>, <<>>>>, NoFields,
               <<F(51), Nil, Nil, Nil>>),
      FoodItem(<<<<>>, <<>>, <<"jam">>, <<>>>>, <<Nil, S(<<"two">>), Nil, Nil>>, NoFields),
      FoodItem(<<<<" ">>, <<>>, <<>>, <<>>>>, NoFields, <<F(100), Nil, Nil, Nil>>) }

\* values of total_calories
Totals ==
    { Nil, F(100), F(101), S(<<"1", "5", "0">>), F(0), F(-100), S(<<"cups">>) }

LogMealTypes == { <<"breakfast">>, <<"brunch">> }

\* the characters of the argument texts of a tool call; "[bel]" stands for
\* the control character U+0007, which %q writes as \a
ArgChars == { "{", "}", "\"", "\\", "x", "n", ":", " ", "[bel]" }

\* the argument texts ParseToolCalls passes on (an empty one is dropped)
ArgTexts == UNION { [1..k -> ArgChars] : k \in 1..MaxArgLen }

\* argument texts that are JSON and carry the key "input" themselves
InputKeyTexts ==
    { <<"{", "\"", "input", "\"", ":", "\"", "{", "}", "\"", "}">>,
      <<"{", "\"", "input", "\"", ":", "\"", "\"", "}">>,
      <<"{", "\"", "input", "\"", ":", "{", "}", "}">>,
      <<"{", "\"", "x", "\"", ":", "\"", "\"", ",", "\"", "input", "\"", ":", " ", "\"", "\\", "\"", "x", "\\", "\"", "\"", "}">> }

Environments ==
    [FITBIT_ACCESS_TOKEN : { "", "tok" }, FITBIT_USER_ID : { "", "7XK2P9" },
     FITBIT_CLIENT_ID : { "" }, FITBIT_CLIENT_SECRET : { "" }]

\* one call of LogMealTool.Execute: the environment and the input
InitLogMeal ==
    /\ AgentInit
    /\ ParserIdle
    /\ RegistryInit
    /\ MealIdle
    /\ StorageIdle
    /\ env \in Environments
    /\ fpc = "Execute"
    /\ \/ \E mealType \in LogMealTypes, n \in 0..MaxFoods, total \in Totals :
            \E its \in [1..n -> LogItems], list \in [1..n -> 1..2] :
                /\ \A i \in 1..(n - 1) : list[i] <= list[i + 1]
                /\ toolInput = RawMeal(WithTotal(LogMealInput(mealType, its, list), total))
       \/ \E content \in ArgTexts : toolInput = RawText(InputOrWrapped(content))
       \/ \E content \in InputKeyTexts : toolInput = RawText(InputOrWrapped(content))
    /\ rawInput = toolInput
    /\ foodIdx = 0
    /\ posts = <<>>
    /\ logErr = NoError
    /\ authCode = ""
    /\ accessToken = ""
    /\ authenticated = FALSE
    /\ execOut = ToolReturn(<<>>, NoError)

NextLogMeal ==
    \/ ExecuteUnwrap
    \/ ExecuteUnmarshal
    \/ ExecuteValidate
    \/ ExecuteAuthCheck
    \/ ExecuteTotalCheck
    \/ LogMealStart
    \/ PostFood
    \/ LogMealDone
    \/ ExecuteFinish

SpecLogMeal == InitLogMeal /\ [][NextLogMeal]_vars

\* ------------------------------------------------------------------------
\* Storage tool: SaveMealTool.Execute
\* ------------------------------------------------------------------------
\* calls of Execute in one run
MaxSaves == 2

\* the date time.Now().Format("2006-01-02") yields during the run
Today == "2025-01-02"

\* dates a meal is saved under
Dates == { "2025-01-01", Today }

\* MealRecord; the timestamp is left out
MealRecord(date, mealData) == [Date |-> date, MealData |-> mealData]

\* a file of dataDir: absent, or present with its bytes, which are the
\* JSON text of a list of records ("records") or no JSON text ("garbage",
\* for instance what an interrupted write left behind)
AbsentFile == [present |-> FALSE, kind |-> "none", records |-> <<>>]

RecordsFile(records) == [present |-> TRUE, kind |-> "records", records |-> records]

GarbageFile == [present |-> TRUE, kind |-> "garbage", records |-> <<>>]

\* the states a per-date file is found in when the run starts
StartFiles ==
    { AbsentFile, GarbageFile, RecordsFile(<<>>),
      RecordsFile(<<MealRecord("2025-01-01", "oatmeal")>>) }

\* SaveMealInput after json.Unmarshal; ok is FALSE for an input that does
\* not decode
SaveInputs ==
    { [ok |-> TRUE, MealData |-> m, Date |-> d] :
        m \in { "eggs", "soup" }, d \in Dates \cup { "" } }
    \cup { [ok |-> FALSE, MealData |-> "", Date |-> ""] }

\* date := saveInput.Date, today if empty
SaveDate(in) == IF in.Date = "" THEN Today ELSE in.Date

\* errors of os.ReadFile on a file that is present
ReadErrors == { <<"permission denied">>, <<"input/output error">> }

\* errors of os.WriteFile
WriteErrors == { <<"permission denied">>, <<"no space left on device">> }

\* Execute, lines 265-286: the input is decoded and the record built
SaveStart ==
    /\ spc \in { "idle", "returned" }
    /\ saveCalls < MaxSaves
    /\ saveCalls' = saveCalls + 1
    /\ \E in \in SaveInputs :
         IF ~in.ok
         THEN /\ saveOut' = ToolReturn(<<>>, <<"failed to parse input", ": ", "invalid character">>)
              /\ spc' = "returned"
              /\ saveInput' = saveInput
         ELSE /\ saveInput' = [MealData |-> in.MealData, Date |-> in.Date]
              /\ spc' = "read"
              /\ saveOut' = ToolReturn(<<>>, NoError)
    /\ meals' = <<>>
    /\ UNCHANGED <<files, fileLog>>
    /\ UNCHANGED <<agentVars, parserVars, registryVars, mealVars, fitbitVars>>

\* Execute, lines 288-292: os.ReadFile and json.Unmarshal into meals, both
\* errors dropped
SaveReadFile ==
    /\ spc = "read"
    /\ LET date == SaveDate(saveInput)
           file == files[date]
       IN \E err \in { NoError } \cup ReadErrors :
            /\ ~file.present => err = NoError
            /\ fileLog' = Append(fileLog, [op |-> "ReadFile", date |-> date,
                                           err |-> IF file.present THEN err
                                                   ELSE <<"no such file or directory">>,
                                           file |-> file])
            /\ meals' = IF file.present /\ err = NoError /\ file.kind = "records"
                        THEN file.records
                        ELSE <<>>
    /\ spc' = "write"
    /\ UNCHANGED <<files, saveInput, saveOut, saveCalls>>
    /\ UNCHANGED <<agentVars, parserVars, registryVars, mealVars, fitbitVars>>

\* Execute, lines 294-308: append, marshal and os.WriteFile; a write that
\* fails leaves the file as it was or with part of the new bytes
SaveWriteFile ==
    /\ spc = "write"
    /\ LET date == SaveDate(saveInput)
           all == Append(meals, MealRecord(date, saveInput.MealData))
       IN \E err \in { NoError } \cup WriteErrors, left \in { files[date], GarbageFile } :
            /\ err = NoError => left = files[date]
            /\ meals' = all
            /\ files' = [files EXCEPT ![date] = IF err = NoError THEN RecordsFile(all)
                                                ELSE left]
            /\ fileLog' = Append(fileLog, [op |-> "WriteFile", date |-> date,
                                           err |-> err, file |-> files[date]])
            /\ saveOut' = IF err = NoError
                          THEN ToolReturn(<<"Meal saved locally to ", date>>, NoError)
                          ELSE ToolReturn(<<>>, <<"failed to save meal: ">> \o err)
    /\ spc' = "returned"
    /\ UNCHANGED <<saveInput, saveCalls>>
    /\ UNCHANGED <<agentVars, parserVars, registryVars, mealVars, fitbitVars>>

\* the files found when the run starts, no call under way
InitSave ==
    /\ AgentInit
    /\ ParserIdle
    /\ RegistryInit
    /\ MealIdle
    /\ FitbitIdle
    /\ files \in [Dates -> StartFiles]
    /\ spc = "idle"
    /\ saveInput = [MealData |-> "", Date |-> ""]
    /\ meals = <<>>
    /\ fileLog = <<>>
    /\ saveOut = ToolReturn(<<>>, NoError)
    /\ saveCalls = 0

NextSave == SaveStart \/ SaveReadFile \/ SaveWriteFile

SpecSave == InitSave /\ [][NextSave]_vars


\* ------------------------------------------------------------------------
\* Login tool: LoginTool.Execute
\* ------------------------------------------------------------------------
\* the input texts of fitbit_login
LoginTexts ==
    { <<"{", "}">>,
      <<"{", "\"", "force_reauth", "\"", ":", "true", "}">>,
      <<"{", "\"", "force_reauth", "\"", ":", "\"", "yes", "\"", "}">>,
      <<"{">> }

\* json.Unmarshal(input, &loginInput), for the texts of LoginTexts
UnmarshalLogin(raw) ==
    IF raw.text = <<"{", "}">> THEN [err |-> NoError, ForceReauth |-> FALSE]
    ELSE IF raw.text = <<"{", "\"", "force_reauth", "\"", ":", "true", "}">>
         THEN [err |-> NoError, ForceReauth |-> TRUE]
    ELSE IF raw.text = <<"{", "\"", "force_reauth", "\"", ":", "\"", "yes", "\"", "}">>
         THEN [err |-> <<"json: cannot unmarshal string into Go struct field LoginInput.force_reauth of type bool">>,
               ForceReauth |-> FALSE]
    ELSE [err |-> <<"unexpected end of JSON input">>, ForceReauth |-> FALSE]

CredentialsError ==
    <<"Fitbit credentials not configured. Please set FITBIT_CLIENT_ID and FITBIT_CLIENT_SECRET environment variables.">>

AlreadyAuthenticated == <<"Already authenticated with Fitbit! You can start logging meals.">>

LoginSuccess ==
    <<"Successfully authenticated with Fitbit! ", "\n",
      "Your access token has been saved and you're now ready to log meals.">>

\* what validateToken's request to the profile endpoint is answered with
ValidateResponses ==
    { [err |-> NoError, status |-> code] : code \in HTTPStatuses }
    \cup { [err |-> <<"Get \"https://api.fitbit.com/1/user/-/profile.json\": context deadline exceeded">>,
            status |-> 0] }

\* validateToken: nil only for status 200
validateToken(resp) ==
    IF resp.err # NoError THEN resp.err
    ELSE IF resp.status # 200
         THEN <<"token validation failed with status ", StatusText(resp.status)>>
    ELSE NoError

\* what startOAuthServer's select receives: a code, an error of the
\* callback or of the server, the timeout, or the cancelled context
OAuthOutcomes ==
    { [code |-> "c0de", err |-> NoError],
      [code |-> "", err |-> <<"OAuth error: ", "access_denied">>],
      [code |-> "", err |-> <<"server error: ", "listen tcp :8000: bind: address already in use">>],
      [code |-> "", err |-> <<"authentication timeout - please try again">>],
      [code |-> "", err |-> <<"context canceled">>] }

\* access_token of a token response that decodes: absent, a token, or a
\* text holding the NUL character os.Setenv refuses
TokenValues == { "", "tok2", "[nul]tok" }

\* what the token endpoint answers: no response, a status with a body that
\* decodes into tokenResp, or a body that does not decode
TokenResponses ==
    { [err |-> <<"Post \"https://api.fitbit.com/oauth2/token\": EOF">>, status |-> 0,
       decodes |-> FALSE, AccessToken |-> ""] }
    \cup { [err |-> NoError, status |-> code, decodes |-> TRUE, AccessToken |-> tok] :
             code \in HTTPStatuses, tok \in TokenValues }
    \cup { [err |-> NoError, status |-> 200, decodes |-> FALSE, AccessToken |-> ""] }

\* exchangeCodeForToken: the token and the error it returns for resp
exchangeCodeForToken(resp) ==
    IF resp.err # NoError
    THEN [token |-> "", err |-> <<"token request failed: ">> \o resp.err]
    ELSE IF resp.status # 200
         THEN [token |-> "", err |-> <<"token request failed with status ", StatusText(resp.status)>>]
    ELSE IF ~resp.decodes
         THEN [token |-> "", err |-> <<"failed to parse token response: ", "invalid character '<' looking for beginning of value">>]
    ELSE [token |-> resp.AccessToken, err |-> NoError]

\* os.Setenv: the error for a value it refuses
SetenvError(val) == IF val = "[nul]tok" THEN <<"setenv: invalid argument">> ELSE NoError

\* Execute, lines 57-79: input, credentials, and the token already stored
LoginStart ==
    /\ fpc = "Login"
    /\ LET loginInput == UnmarshalLogin(toolInput) IN
       IF loginInput.err # NoError
       THEN /\ execOut' = ToolReturn(<<>>, <<"failed to parse input: ">> \o loginInput.err)
            /\ fpc' = "returned"
            /\ posts' = posts
       ELSE IF env.FITBIT_CLIENT_ID = "" \/ env.FITBIT_CLIENT_SECRET = ""
       THEN /\ execOut' = ToolReturn(<<>>, CredentialsError)
            /\ fpc' = "returned"
            /\ posts' = posts
       ELSE IF ~loginInput.ForceReauth /\ env.FITBIT_ACCESS_TOKEN # ""
       THEN \E resp \in ValidateResponses :
              /\ posts' = Append(posts, [method |-> "GET", url |-> "/1/user/-/profile.json",
                                         resp |-> resp])
              /\ IF validateToken(resp) = NoError
                 THEN /\ execOut' = ToolReturn(AlreadyAuthenticated, NoError)
                      /\ fpc' = "returned"
                 ELSE /\ execOut' = execOut
                      /\ fpc' = "oauth"
       ELSE /\ execOut' = execOut
            /\ fpc' = "oauth"
            /\ posts' = posts
    /\ UNCHANGED <<env, toolInput, rawInput, foodIdx, logErr, authCode, accessToken,
                   authenticated>>
    /\ UNCHANGED <<agentVars, parserVars, registryVars, mealVars, storageVars>>

\* Execute, lines 89-92: startOAuthServer
LoginOAuth ==
    /\ fpc = "oauth"
    /\ \E outcome \in OAuthOutcomes :
         IF outcome.err # NoError
         THEN /\ execOut' = ToolReturn(<<>>, <<"OAuth flow failed: ">> \o outcome.err)
              /\ fpc' = "returned"
              /\ authCode' = authCode
         ELSE /\ authCode' = outcome.code
              /\ fpc' = "exchange"
              /\ execOut' = execOut
    /\ UNCHANGED <<env, toolInput, rawInput, foodIdx, posts, logErr, accessToken,
                   authenticated>>
    /\ UNCHANGED <<agentVars, parserVars, registryVars, mealVars, storageVars>>

\* Execute, lines 95-98: exchangeCodeForToken
LoginExchange ==
    /\ fpc = "exchange"
    /\ \E resp \in TokenResponses :
         LET r == exchangeCodeForToken(resp) IN
         /\ posts' = Append(posts, [method |-> "POST", url |-> "/oauth2/token",
                                    code |-> authCode, resp |-> resp])
         /\ IF r.err # NoError
            THEN /\ execOut' = ToolReturn(<<>>, <<"failed to exchange code for token: ">> \o r.err)
                 /\ fpc' = "returned"
                 /\ accessToken' = accessToken
            ELSE /\ accessToken' = r.token
                 /\ fpc' = "save"
                 /\ execOut' = execOut
    /\ UNCHANGED <<env, toolInput, rawInput, foodIdx, logErr, authCode, authenticated>>
    /\ UNCHANGED <<agentVars, parserVars, registryVars, mealVars, storageVars>>

\* Execute, lines 100-110: the token is stored and success reported
LoginSaveToken ==
    /\ fpc = "save"
    /\ IF SetenvError(accessToken) # NoError
       THEN /\ execOut' = ToolReturn(<<>>, <<"failed to save access token: ">> \o SetenvError(accessToken))
            /\ env' = env
       ELSE /\ env' = [env EXCEPT !.FITBIT_ACCESS_TOKEN = accessToken]
            /\ execOut' = ToolReturn(LoginSuccess, NoError)
    /\ fpc' = "returned"
    /\ UNCHANGED <<toolInput, rawInput, foodIdx, posts, logErr, authCode, accessToken,
                   authenticated>>
    /\ UNCHANGED <<agentVars, parserVars, registryVars, mealVars, storageVars>>

\* LogMealTool.isAuthenticated, called after the login has returned
CheckAuthenticated ==
    /\ fpc = "returned"
    /\ authenticated' = isAuthenticated
    /\ fpc' = "checked"
    /\ UNCHANGED <<env, toolInput, rawInput, foodIdx, posts, logErr, authCode, accessToken,
                   execOut>>
    /\ UNCHANGED <<agentVars, parserVars, registryVars, mealVars, storageVars>>

LoginEnvironments ==
    [FITBIT_ACCESS_TOKEN : { "", "tok" }, FITBIT_USER_ID : { "", "7XK2P9" },
     FITBIT_CLIENT_ID : { "", "23ABCD" }, FITBIT_CLIENT_SECRET : { "", "s3cret" }]

\* one call of LoginTool.Execute: the environment and the input
InitLogin ==
    /\ AgentInit
    /\ ParserIdle
    /\ RegistryInit
    /\ MealIdle
    /\ StorageIdle
    /\ env \in LoginEnvironments
    /\ fpc = "Login"
    /\ \E t \in LoginTexts : toolInput = RawText(t)
    /\ rawInput = toolInput
    /\ foodIdx = 0
    /\ posts = <<>>
    /\ logErr = NoError
    /\ authCode = ""
    /\ accessToken = ""
    /\ authenticated = FALSE
    /\ execOut = ToolReturn(<<>>, NoError)

NextLogin ==
    \/ LoginStart
    \/ LoginOAuth
    \/ LoginExchange
    \/ LoginSaveToken
    \/ CheckAuthenticated

SpecLogin == InitLogin /\ [][NextLogin]_vars

\* ------------------------------------------------------------------------
\* Vocabulary of the properties
\* ------------------------------------------------------------------------
IsPrefix(s, t) == Len(s) <= Len(t) /\ SubSeq(t, 1, Len(s)) = s

IsToolResultTurn(m) == m.Role = "user" /\ HasPrefix(m.Content, <<"Tool result: ">>)

IsUserInputTurn(m) == m.Role = "user" /\ m.Content \in UserInputs

\* the executions recorded for request r, in the order they happened
ExecsOf(r) == SelectSeq(execLog, LAMBDA e : e.request = r)

\* request r is over: its tool results (if any) are in the conversation
TurnComplete(r) == r < Len(requests) \/ pc # "exec"

\* the last turn is a tool result no LLM request has seen yet
ResultsPending ==
    /\ Len(conversation) > 0
    /\ IsToolResultTurn(conversation[Len(conversation)])
    /\ requests # <<>>
    /\ requests[Len(requests)].convLen < Len(conversation)

\* the errors of the model that the loop's contract calls recoverable
RecoverableLLMErrors == { ErrQuotaExceeded, ErrAPIKey }

\* C1: once the tool results of a turn are appended the only next step is
\* a new LLM request (no input is read, no tool runs), with or without a
\* "TOOL_CALL:" token in a result; and every tool execution is for a call
\* of the response of the current request.
C1_ResultsNeverSelfExecute ==
    [][ /\ ResultsPending =>
             /\ Len(requests') = Len(requests) + 1
             /\ inputsRead' = inputsRead
             /\ execLog' = execLog
        /\ execLog' # execLog =>
             LET e == execLog'[Len(execLog')]
                 r == requests[Len(requests)]
             IN /\ Len(execLog') = Len(execLog) + 1
                /\ requests' = requests
                /\ r.ok
                /\ e.idx \in 1..Len(r.resp.ToolCalls)
                /\ e.call = r.resp.ToolCalls[e.idx]
      ]_vars

\* C1 witness: a result carrying "TOOL_CALL:" was appended and the next
\* LLM request has been made with it in the conversation
C1_Witness ==
    \E i \in 1..Len(conversation) :
        /\ IsToolResultTurn(conversation[i])
        /\ Contains(conversation[i].Content, "TOOL_CALL:")
        /\ requests # <<>>
        /\ requests[Len(requests)].convLen >= i

\* C2: for a response with n >= 1 calls whose turn is over, exactly n
\* executions happened, for the calls 1..n in that order, and the n turns
\* after the assistant turn are the tool-result turns of those executions
\* in the same order; the next LLM request sees exactly these turns.
C2_SequentialInOrder ==
    \A r \in 1..Len(requests) :
        LET req == requests[r]
            n == Len(req.resp.ToolCalls)
            ex == ExecsOf(r)
        IN (req.ok /\ n >= 1) =>
             /\ Len(ex) <= n
             /\ \A k \in 1..Len(ex) :
                    ex[k].idx = k /\ ex[k].call = req.resp.ToolCalls[k]
             /\ TurnComplete(r) =>
                  /\ Len(ex) = n
                  /\ Len(conversation) >= req.convLen + 1 + n
                  /\ \A k \in 1..n :
                       conversation[req.convLen + 1 + k] =
                           Message("user", <<"Tool result: ">> \o ex[k].result)
                  /\ r < Len(requests) =>
                       requests[r + 1].convLen = req.convLen + 1 + n

\* C2 witness: a response with two calls with different results was
\* processed and the next LLM request was made
C2_Witness ==
    \E r \in 1..Len(requests) :
        /\ r < Len(requests)
        /\ Len(requests[r].resp.ToolCalls) = 2
        /\ Len(ExecsOf(r)) = 2
        /\ ExecsOf(r)[1].result # ExecsOf(r)[2].result

\* C3: after an LLM call failed with a recoverable error Run has not
\* returned an error; the next LLM request, if any, comes after exactly two
\* reads (the acknowledgement and a user input) and sees exactly one more
\* turn, a user input; the acknowledgement is in no turn; and Run ends
\* before that only on end of input.
C3_RecoverableErrorContinues ==
    \A r \in 1..Len(requests) :
        LET req == requests[r] IN
        (~req.ok /\ req.err \in RecoverableLLMErrors) =>
            /\ r < Len(requests) =>
                 /\ requests[r + 1].inputs = req.inputs + 2
                 /\ requests[r + 1].convLen = req.convLen + 1
                 /\ IsUserInputTurn(conversation[req.convLen + 1])
            /\ r = Len(requests) =>
                 /\ runErr = NoError
                 /\ Len(conversation) \in {req.convLen, req.convLen + 1}
                 /\ inputsRead <= req.inputs + 2
                 /\ pc \in {"returned", "done"} => (eof /\ exitCode \in {-1, 0})
                 /\ pc = "llm" => (inputsRead = req.inputs + 2
                                    /\ Len(conversation) = req.convLen + 1)
                 /\ pc = "ack" => inputsRead = req.inputs

\* C3 witness: a recoverable failure was followed by another LLM request
C3_Witness ==
    \E r \in 1..Len(requests) :
        /\ r < Len(requests)
        /\ ~requests[r].ok
        /\ requests[r].err = ErrAPIKey

\* C4 (as stated): an LLM error matching none of the loop's recoverable
\* keywords ends the program with a non-zero outcome
C4_FatalErrorNonZeroExit ==
    (/\ pc = "done"
     /\ requests # <<>>
     /\ ~requests[Len(requests)].ok
     /\ \A keyword \in recoverableKeywords :
            ~Contains(ToLower(requests[Len(requests)].err), keyword))
    => exitCode > 0

C6_NoEmptyAssistantTurn ==
    \A i \in 1..Len(conversation) :
        conversation[i].Role = "assistant" => conversation[i].Content # <<>>

\* C7: the conversation only grows at its end: every step leaves the
\* turns already present where and as they were.
C7_AppendOnly ==
    [][IsPrefix(conversation, conversation')]_vars

\* C7 witness: user input, model reply and tool results were appended and
\* a recoverable error was acknowledged after that
C7_Witness ==
    /\ \E i \in 1..Len(conversation) : IsToolResultTurn(conversation[i])
    /\ \E i \in 1..Len(conversation) : conversation[i].Role = "assistant"
    /\ requests # <<>>
    /\ ~requests[Len(requests)].ok
    /\ pc = "top"

\* ------------------------------------------------------------------------
\* Properties of the argument scan
\* ------------------------------------------------------------------------
RECURSIVE BackslashesBefore(_, _, _)
\* number of consecutive backslashes that end right before position i and
\* lie after the opening parenthesis
BackslashesBefore(t, start, i) ==
    IF i - 1 > start /\ t[i - 1] = "\\"
    THEN 1 + BackslashesBefore(t, start, i - 1)
    ELSE 0

\* position i follows a backslash
AfterBackslash(t, start, i) == i - 1 > start /\ t[i - 1] = "\\"

\* position i is escaped: it follows a backslash that is not itself escaped
IsEscaped(t, start, i) == BackslashesBefore(t, start, i) % 2 = 1

\* The span a reading of the scan selects.  Skipped(i) says which
\* characters the scan passes over without looking at them.
SpanBy(t, start, Skipped(_)) ==
    LET Quote(i) == t[i] = "\"" /\ ~Skipped(i)
        InStr(i) == Cardinality({ j \in (start + 1)..(i - 1) : Quote(j) }) % 2 = 1
        Open(i) == t[i] = "(" /\ ~Skipped(i) /\ ~InStr(i)
        Close(i) == t[i] = ")" /\ ~Skipped(i) /\ ~InStr(i)
        Depth(i) == 1 + Cardinality({ j \in (start + 1)..i : Open(j) })
                      - Cardinality({ j \in (start + 1)..i : Close(j) })
        Ends == { i \in (start + 1)..Len(t) : Close(i) /\ Depth(i) = 0 }
    IN IF Ends = {} THEN SubSeq(t, start + 1, Len(t))
       ELSE SubSeq(t, start + 1, (CHOOSE i \in Ends : \A j \in Ends : i <= j) - 1)

\* the claim's reading: only a quote that follows a backslash is passed over
ClaimedSpan(t, start) ==
    SpanBy(t, start, LAMBDA i : t[i] = "\"" /\ AfterBackslash(t, start, i))

\* the amended reading: a backslash that is not itself escaped makes the
\* scan pass over the next character, whatever it is and wherever it stands
EscapeAwareSpan(t, start) ==
    SpanBy(t, start, LAMBDA i : IsEscaped(t, start, i))

AtOpenParen == startPos <= Len(text) /\ text[startPos] = "("

\* C8 (as stated): the result is the trimmed text from the opening
\* parenthesis to the first closing one at which the nesting counter is back
\* at zero, parentheses in strings not counted and a quote that follows a
\* backslash not toggling the string state; else the trimmed remainder
C8_SpanAsClaimed ==
    (phase = "done" /\ AtOpenParen)
        => jsonContent = TrimSpace(ClaimedSpan(text, startPos))

\* C8 (amended): the same, where a backslash that is not itself escaped
\* makes the scan pass over the following character inside and outside
\* strings: that character neither toggles the string state nor is counted
\* as a parenthesis, and a quote after an escaped backslash does toggle.
C8_SpanEscapeAware ==
    (phase = "done" /\ AtOpenParen)
        => jsonContent = TrimSpace(EscapeAwareSpan(text, startPos))

\* C8 witness: the arguments hold a string with a closing parenthesis in
\* it, and the scan went on to the closing parenthesis after the string
C8_Witness ==
    /\ phase = "done"
    /\ text = <<"(", "\"", ")", "\"", ")">>
    /\ startPos = 1
    /\ jsonContent = <<"\"", ")", "\"">>


\* ------------------------------------------------------------------------
\* Properties of ParseToolCalls
\* ------------------------------------------------------------------------
\* the pattern families in the order the contract consults them
FirstFamilyWithMatches(t) ==
    IF FindPrimary(t, 1) # <<>> THEN "primary"
    ELSE IF FindFenced(t, 1) # <<>> THEN "fenced"
    ELSE IF FindProse(t, 1) # <<>> THEN "prose"
    ELSE IF FindBare(t, 1) # <<>> THEN "bare"
    ELSE "none"

MatchesOf(t, family) ==
    CASE family = "primary" -> FindPrimary(t, 1)
      [] family = "fenced" -> FindFenced(t, 1)
      [] family = "prose" -> FindProse(t, 1)
      [] family = "bare" -> FindBare(t, 1)
      [] OTHER -> <<>>

\* C9 (as stated): every match of the primary pattern produces exactly one
\* request, carrying the cleaned argument text verbatim if it is valid JSON
\* and the wrapped text otherwise; no match is dropped, a match with empty
\* argument text included
C9_EveryPrimaryMatchOneRequest ==
    LET matches == FindPrimary(text, 1) IN
    (phase = "done" /\ matches # <<>>) =>
        /\ Len(toolCalls) = Len(matches)
        /\ \A k \in 1..Len(matches) :
             LET content == PrimaryContent(text, matches[k]) IN
             /\ toolCalls[k].grammar = "primary"
             /\ toolCalls[k].at = matches[k].at
             /\ toolCalls[k].Name = matches[k].name
             /\ toolCalls[k].Input =
                    IF JSONValid(content) THEN content ELSE WrapInput(content)

\* C10 (as stated): in both providers the requests come from the first of
\* the families primary, fenced, prose, bare that has a match in the text,
\* and a fenced or prose family that is reached yields one request per match
C10_FallbackOrder ==
    LET family == FirstFamilyWithMatches(text) IN
    phase = "done" =>
        /\ \A k \in 1..Len(toolCalls) : toolCalls[k].grammar = family
        /\ family \in { "fenced", "prose" } =>
               Len(toolCalls) = Len(MatchesOf(text, family))

\* names as ParseToolCalls returns them, of the tools the registry holds
RegisteredNames == { <<name>> : name \in RegisteredTools }

\* C11: a request of the bare-call grammar names a registered tool, and for
\* a text with no primary, fenced or prose match every returned request
\* names a registered tool
C11_BareOnlyRegistered ==
    phase = "done" =>
        /\ \A k \in 1..Len(toolCalls) :
              toolCalls[k].grammar = "bare" => toolCalls[k].Name \in RegisteredNames
        /\ FirstFamilyWithMatches(text) \in { "bare", "none" } =>
              \A k \in 1..Len(toolCalls) : toolCalls[k].Name \in RegisteredNames

\* a text with a bare call of a registered and of an unregistered name was
\* parsed by Gemini: only the registered one is returned
C11_Witness ==
    /\ phase = "done"
    /\ provider = "gemini"
    /\ FirstFamilyWithMatches(text) = "bare"
    /\ \E k \in 1..Len(FindBare(text, 1)) :
          FindBare(text, 1)[k].name \notin RegisteredNames
    /\ Len(toolCalls) = 1
    /\ toolCalls[1].grammar = "bare"
    /\ toolCalls[1].Name = <<"fitbit_log_meal">>

\* C12 (as stated): the requests of one extraction are in order of
\* appearance and the k-th of them (k from 0) has id call_k
C12_SequentialIds ==
    phase = "done" =>
        /\ \A k \in 1..Len(toolCalls) : toolCalls[k].ID = k - 1
        /\ \A j, k \in 1..Len(toolCalls) :
              j < k => toolCalls[j].at < toolCalls[k].at

\* ------------------------------------------------------------------------
\* Properties of the tool registry
\* ------------------------------------------------------------------------
RECURSIVE LastRegistered(_, _)
\* the tool stored last under name n in log, NoTool if there is none
LastRegistered(log, n) ==
    IF log = <<>> THEN NoTool
    ELSE IF log[Len(log)].name = n THEN log[Len(log)]
    ELSE LastRegistered(SubSeq(log, 1, Len(log) - 1), n)

\* the map after the registrations of log, in that order
MapAfter(log) == [n \in RegistryNames |-> LastRegistered(log, n)]

\* the map as it was when goroutine g took its read lock
MapLockedBy(g) == MapAfter(SubSeq(regLog, 1, gop[g].lockedAt))

InWrite(g) == gpc[g] \in { "store", "Unlock" }

InRead(g) == gpc[g] \in { "lookup", "range", "RUnlock" }

Returned(g, ops) == gpc[g] = "returned" /\ gop[g].op \in ops

\* C13: registration is last-write-wins per name: the map holds for each
\* name the tool registered last under it, GetTool returns that tool or
\* not-found for a name never registered, a registration of a duplicate
\* name goes through, and GetAllTools returns one tool per registered name
C13_LastWriteWins ==
    /\ tools = MapAfter(regLog)
    /\ \A g \in Goroutines :
          /\ Returned(g, { "RegisterTool" }) =>
                \E k \in 1..Len(regLog) : regLog[k] = gop[g].tool
          /\ Returned(g, { "GetTool" }) =>
                /\ gop[g].result = <<MapLockedBy(g)[gop[g].name]>>
                /\ gop[g].exists =
                      (\E k \in 1..gop[g].lockedAt : regLog[k].name = gop[g].name)
          /\ Returned(g, { "GetAllTools" }) =>
                /\ Len(gop[g].result) =
                      Cardinality({ regLog[k].name : k \in 1..gop[g].lockedAt })
                /\ \A k \in 1..gop[g].lockedAt :
                      \E j \in 1..Len(gop[g].result) :
                          gop[g].result[j] = MapLockedBy(g)[regLog[k].name]

\* GetTool returned a tool that replaced an earlier tool of the same name
C13_Witness ==
    \E g \in Goroutines :
        /\ Returned(g, { "GetTool" })
        /\ gop[g].exists
        /\ \E j, k \in 1..gop[g].lockedAt :
              /\ j < k
              /\ regLog[j].name = gop[g].name
              /\ regLog[j] # regLog[k]
              /\ gop[g].result = <<regLog[k]>>

\* C14: a goroutine inside RegisterTool's critical section excludes every
\* other goroutine from the map, and what a read delivers is the map as it
\* was when the read lock was taken: no registration falls inside a read
C14_ReadsExcludeRegistration ==
    /\ \A g, h \in Goroutines :
          (g # h /\ InWrite(g)) => (~InWrite(h) /\ ~InRead(h))
    /\ \A g \in Goroutines :
          /\ InRead(g) => gop[g].lockedAt = Len(regLog)
          /\ (InRead(g) \/ Returned(g, { "GetTool", "GetAllTools", "GetToolDefinitions" })) =>
                /\ \A k \in 1..Len(gop[g].acc) :
                      gop[g].acc[k] = MapLockedBy(g)[gop[g].acc[k].name]
                /\ \A k \in 1..Len(gop[g].result) :
                      gop[g].result[k] = MapLockedBy(g)[IF gop[g].op = "GetTool"
                                                        THEN gop[g].name
                                                        ELSE gop[g].result[k].name]

\* two goroutines hold the read lock at the same time while a third waits
\* in RegisterTool for the write lock
C14_Witness ==
    \E g, h, w \in Goroutines :
        /\ g # h
        /\ InRead(g) /\ InRead(h)
        /\ mu.readers = { g, h }
        /\ gpc[w] = "Lock"

\* ------------------------------------------------------------------------
\* Properties of parseNumberField
\* ------------------------------------------------------------------------
\* equality of two finite floats
RatEq(a, b) == a.n * b.d = b.n * a.d

\* the text of a string value as the patterns see it
Lowered(v) == ToLowerText(TrimSpace(v.str))

IsTableWord(t) == Len(t) = 1 /\ t[1] \in DOMAIN wordNumbers

\* a string value that is not empty, does not parse as a float as it is
\* and is not a word of the table
NeedsPattern(v) ==
    /\ v.kind = "string"
    /\ TrimSpace(v.str) # <<>>
    /\ ~ParseFloat(TrimSpace(v.str)).ok
    /\ ~IsTableWord(Lowered(v))

NumberFailure ==
    /\ numResult.err # NoError
    /\ numResult.err[1] = fieldName
    /\ numResult.val = Rat(0, 1)

\* C15 (as stated): a string that, trimmed and lowercased, equals a key of
\* the word-number table parses to that key's value, "zero" to 0 included
C15_TableWordParses ==
    (mealPhase = "done" /\ value.kind = "string" /\ IsTableWord(Lowered(value))) =>
        /\ numResult.err = NoError
        /\ RatEq(numResult.val, wordNumbers[Lowered(value)[1]])

\* C16 (as stated): for a string that needs the patterns, a leading
\* digits/digits gives numerator divided by denominator, and otherwise a
\* leading integer or decimal gives that number, trailing text ignored
C16_FractionBeforeDecimal ==
    (mealPhase = "done" /\ NeedsPattern(value)) =>
        LET f == fractionRe(Lowered(value))
            m == leadingNumberRe(Lowered(value))
            quotient == Rat(DigitsValue(f.num), DigitsValue(f.denom))
        IN IF f.ok
           THEN /\ numResult.err = NoError
                /\ IF quotient.d = 0 THEN numResult.val = quotient
                   ELSE RatEq(numResult.val, quotient)
           ELSE m.ok => (numResult.err = NoError /\ RatEq(numResult.val, m.val))

\* C17: parseNumberField fails, naming the field and delivering no value,
\* for nil, for an empty or blank string, for a text with no number in it
\* and for a bool, an object or an array; a numeric value is returned as
\* it is
C17_FailuresNameTheField ==
    mealPhase = "done" =>
        /\ value.kind = "nil" => NumberFailure
        /\ (value.kind = "string" /\ TrimSpace(value.str) = <<>>) => NumberFailure
        /\ (NeedsPattern(value) /\ ~fractionRe(Lowered(value)).ok
              /\ ~leadingNumberRe(Lowered(value)).ok) => NumberFailure
        /\ value.kind \in { "bool", "map[string]interface {}", "[]interface {}" } =>
              NumberFailure
        /\ value.kind \in { "float64", "int", "int64" } =>
              (numResult.err = NoError /\ numResult.val = value.num)

\* a string of blanks only was rejected as empty
C17_Witness ==
    /\ mealPhase = "done"
    /\ value.kind = "string"
    /\ value.str # <<>>
    /\ TrimSpace(value.str) = <<>>
    /\ numResult.err = <<fieldName, " cannot be empty">>

\* ------------------------------------------------------------------------
\* Properties of the meal normalization
\* ------------------------------------------------------------------------
\* the item lists of the input, one after the other
MergedLists ==
    mealInput.Foods \o mealInput.Toast \o mealInput.Snacks
    \o mealInput.Items \o mealInput.FoodItems

SumOfLengths ==
    Len(mealInput.Foods) + Len(mealInput.Toast) + Len(mealInput.Snacks)
    + Len(mealInput.Items) + Len(mealInput.FoodItems)

MealDone == mealPhase = "done" /\ mealInput # NoMealInput

\* field number i of fields parses, as the number of the field named
\* label, to a value that is positive or, if zeroToo, not negative
ResolvesAt(fields, i, label, zeroToo) ==
    LET r == parseNumberField(fields[i], label) IN
    /\ r.err = NoError
    /\ IF zeroToo THEN Ge0(r.val) ELSE Gt0(r.val)

\* the first field that resolves, 0 if none does
FirstResolving(fields, label, zeroToo) ==
    IF \E i \in 1..Len(fields) : ResolvesAt(fields, i, label, zeroToo)
    THEN CHOOSE i \in 1..Len(fields) :
            /\ ResolvesAt(fields, i, label, zeroToo)
            /\ \A j \in 1..(i - 1) : ~ResolvesAt(fields, j, label, zeroToo)
    ELSE 0

CalorieFields(food) == <<food.Calories, food.Cals, food.Cal, food.Energy>>

QuantityFields(food) == <<food.Quantity, food.Amount, food.Serving, food.Count>>

HasCalories(food) == FirstResolving(CalorieFields(food), "calories", TRUE) # 0

HasName(food) ==
    \E n \in { food.Name, food.FoodItem, food.Item, food.Food } : TrimSpace(n) # <<>>

\* C18: the merged item list is foods, toast, snacks, items, food_items in
\* that order with the order inside each list kept, its length is the sum
\* of the lengths of the lists, and an empty merged list makes the
\* normalization fail
C18_MergeInListOrder ==
    MealDone =>
        /\ MergedLists = <<>> => mealResult.err # NoError
        /\ mealResult.mealType # "" =>
              /\ mealResult.allFoods = MergedLists
              /\ Len(mealResult.allFoods) = SumOfLengths
              /\ MergedLists = <<>> => mealResult.err = NoFoodsError
        /\ mealResult.err = NoError =>
              /\ Len(mealResult.parsedFoods) = SumOfLengths
              /\ \A k \in 1..SumOfLengths :
                    mealResult.parsedFoods[k].Name = getAnyFoodName(MergedLists[k])

\* a meal with different items in its foods, toast and items lists was
\* normalized
C18_Witness ==
    /\ MealDone
    /\ mealResult.err = NoError
    /\ Len(mealInput.Foods) = 1 /\ Len(mealInput.Toast) = 1 /\ Len(mealInput.Items) = 1
    /\ mealInput.Toast[1] # mealInput.Items[1]
    /\ mealResult.allFoods = <<mealInput.Foods[1], mealInput.Toast[1], mealInput.Items[1]>>
    /\ Len(mealResult.parsedFoods) = 3

\* C19: the calories of an item are those of the first of the fields
\* calories, cals, cal, energy that parses to a value >= 0; an item with no
\* such field makes the whole normalization fail, the error cites the
\* position and the name of the item, and no default is put in its place
C19_CaloriesRequired ==
    MealDone =>
        /\ (\E k \in 1..Len(MergedLists) : ~HasCalories(MergedLists[k])) =>
               mealResult.err # NoError
        /\ mealResult.err = NoError =>
               \A k \in 1..Len(MergedLists) :
                   LET fields == CalorieFields(MergedLists[k])
                       i == FirstResolving(fields, "calories", TRUE)
                   IN /\ i # 0
                      /\ mealResult.parsedFoods[k].Calories =
                             parseNumberField(fields[i], "calories").val
        /\ mealResult.mealType # "" =>
               \A k \in 1..Len(MergedLists) :
                   ( /\ \A j \in 1..(k - 1) :
                          HasName(MergedLists[j]) /\ HasCalories(MergedLists[j])
                     /\ HasName(MergedLists[k])
                     /\ ~HasCalories(MergedLists[k]) ) =>
                   mealResult.err =
                       <<"error parsing food item ", Itoa(k), " (">>
                       \o getAnyFoodName(MergedLists[k])
                       \o <<"): ", "calories must be specified">>

\* the second item of a meal has a name and a quantity but no calories:
\* the normalization failed citing item 2 and its name
C19_Witness ==
    /\ MealDone
    /\ Len(MergedLists) >= 2
    /\ HasName(MergedLists[2])
    /\ FirstResolving(QuantityFields(MergedLists[2]), "quantity", FALSE) # 0
    /\ ~HasCalories(MergedLists[2])
    /\ mealResult.err =
           <<"error parsing food item ", "2", " (", "jam", "): ",
             "calories must be specified">>

\* C20: the quantity of an item is that of the first of the fields
\* quantity, amount, serving, count that parses to a value > 0, and 1.0 if
\* none does; the quantity never makes the normalization fail
C20_QuantityDefaultsToOne ==
    MealDone =>
        /\ \A k \in 1..Len(mealResult.parsedFoods) :
              LET fields == QuantityFields(MergedLists[k])
                  i == FirstResolving(fields, "quantity", FALSE)
              IN mealResult.parsedFoods[k].Quantity =
                    IF i = 0 THEN Rat(1, 1)
                    ELSE parseNumberField(fields[i], "quantity").val
        /\ (mealResult.mealType # "" /\ MergedLists # <<>>) =>
              LET k == Len(mealResult.parsedFoods) + 1 IN
              IF k > Len(MergedLists) THEN mealResult.err = NoError
              ELSE /\ ~HasName(MergedLists[k]) \/ ~HasCalories(MergedLists[k])
                   /\ mealResult.err \in
                         { ItemError(k, MergedLists[k], NameError),
                           ItemError(k, MergedLists[k], CaloriesError) }

\* all four quantity fields of an item are present and none of them gives
\* a positive number, the second field is the first that is a number at
\* all: the item was accepted with quantity 1.0
C20_Witness ==
    /\ MealDone
    /\ mealResult.err = NoError
    /\ Len(MergedLists) = 1
    /\ \A i \in 1..4 : QuantityFields(MergedLists[1])[i] # Nil
    /\ FirstResolving(QuantityFields(MergedLists[1]), "quantity", FALSE) = 0
    /\ parseNumberField(MergedLists[1].Quantity, "quantity").err # NoError
    /\ parseNumberField(MergedLists[1].Amount, "quantity").err = NoError
    /\ mealResult.parsedFoods[1].Quantity = Rat(1, 1)

\* ------------------------------------------------------------------------
\* C21 - C26, C28: one call of LogMealTool.Execute
\* ------------------------------------------------------------------------
\* Execute has returned
ExecuteReturned == fpc = "returned"

\* Execute has returned and every item of the merged list was normalized
Normalized == ExecuteReturned /\ mealPhase = "idle" /\ mealResult.parsedFoods # <<>>
              /\ mealResult.err = NoError

\* the number total_calories stands for
DeclaredTotal == parseNumberField(mealInput.TotalCalories, "total_calories")

\* the requests that were answered with a 2xx status
Persisted ==
    SelectSeq(posts, LAMBDA p : p.resp.err = NoError /\ p.resp.status >= 200
                                /\ p.resp.status < 300)

\* C21: whenever the input declares an expected total, the call fails with
\* the calorie-mismatch error if and only if the sum of the per-item
\* calories differs from the declared total by more than 50, whatever the
\* declared total and whether or not an access token is present.
C21_MismatchIffBeyondTolerance ==
    (Normalized /\ mealInput.TotalCalories # Nil /\ DeclaredTotal.err = NoError)
    => (execOut.err = MismatchError
        <=> OutOfTolerance(SumCalories(mealResult.parsedFoods), DeclaredTotal.val))

\* the last request sent was answered with status 401
Answered401 ==
    /\ posts # <<>>
    /\ posts[Len(posts)].resp.err = NoError
    /\ posts[Len(posts)].resp.status = 401

\* C22: Execute returns the re-authentication suggestion exactly when the
\* remote logging call was answered with status 401; every other failure of
\* the remote call is returned as an error.
C22_ReauthExactlyOn401 ==
    ExecuteReturned => (execOut = ToolReturn(AuthExpired, NoError) <=> Answered401)

\* ------------------------------------------------------------------------
\* C23: SaveMealTool.Execute
\* ------------------------------------------------------------------------
\* the os.ReadFile calls made so far
FileReads == SelectSeq(fileLog, LAMBDA l : l.op = "ReadFile")

\* the latest os.ReadFile call could not deliver the stored collection
ReadFailed(rd) == rd.file.present /\ (rd.err # NoError \/ rd.file.kind # "records")

\* C23: an absent per-date file counts as an empty collection; any other
\* failure to read the existing collection makes the save fail without
\* rewriting the file; so a successful save leaves the file holding the
\* records stored before, in order, followed by the new record.
C23_SaveKeepsStoredRecords ==
    (spc = "returned" /\ FileReads # <<>>) =>
        LET rd == FileReads[Len(FileReads)]
            date == SaveDate(saveInput)
            record == MealRecord(date, saveInput.MealData)
        IN /\ ReadFailed(rd) => (saveOut.err # NoError /\ files[date] = rd.file)
           /\ saveOut.err = NoError
              => files[date] = RecordsFile(Append(rd.file.records, record))


\* what the validation of lines 453-473 makes of the decoded input
Validation == ExecuteParse(UnmarshalMeal(rawInput).meal)

\* the input was decoded into a LogMealInput
Decoded == ExecuteReturned /\ UnmarshalMeal(rawInput).err = NoError

\* C24: validation precedes the authentication check: an input that fails
\* the validation of meal type, item count and items returns an error with
\* or without an access token, and an input that passes it while no token
\* is present returns the non-error "Authentication Required" result with
\* the fitbit_login directive; in both cases no request was sent.
C24_ValidationPrecedesAuth ==
    Decoded =>
        /\ Validation.err # NoError => (execOut.err # NoError /\ posts = <<>>)
        /\ (Validation.err = NoError /\ env.FITBIT_ACCESS_TOKEN = "")
           => /\ execOut = ToolReturn(AuthRequired, NoError)
              /\ Contains(execOut.result, "Authentication Required!")
              /\ Contains(execOut.result, "TOOL_CALL:")
              /\ Contains(execOut.result, "fitbit_login")
              /\ posts = <<>>

\* a meal of two valid items, no token: the login suggestion is returned
C24_Witness ==
    /\ Decoded
    /\ env.FITBIT_ACCESS_TOKEN = ""
    /\ Len(Validation.parsedFoods) = 2
    /\ Validation.err = NoError
    /\ execOut = ToolReturn(AuthRequired, NoError)

\* an invalid item with a token present: the error of the validation
C24_WitnessInvalid ==
    /\ Decoded
    /\ env.FITBIT_ACCESS_TOKEN # ""
    /\ Len(Validation.allFoods) = 2
    /\ Validation.err # NoError
    /\ execOut = ToolReturn(<<>>, Validation.err)


\* the request p was not accepted: no response, or a status outside 2xx
PostFailed(p) == PostError(p.food, p.resp) # NoError

\* logMealToFitbit has sent a request that failed
LogFailed == posts # <<>> /\ PostFailed(posts[Len(posts)])

\* the requests follow the normalized items, one POST per item in list
\* order, and only the last request sent may have failed
PostsInListOrder ==
    /\ Len(posts) <= Len(mealResult.parsedFoods)
    /\ \A i \in 1..Len(posts) :
         /\ posts[i].method = "POST"
         /\ posts[i].food = mealResult.parsedFoods[i]
         /\ i < Len(posts) => ~PostFailed(posts[i])

\* C25 as stated: logMealToFitbit sends one POST per item in list order and
\* stops at the first failing item, and Execute returns that failure to
\* the dispatch layer as an error.
C25_FailureReturnedAsError ==
    /\ PostsInListOrder
    /\ (ExecuteReturned /\ LogFailed) => execOut.err # NoError

\* C25 (amended): one POST per item in list order, stopping at the first
\* failing item k: items 1..k-1 were accepted and no further request of any
\* kind follows; Execute returns the failure as an error unless the error
\* text contains "401" or "unauthorized", in which case it returns the
\* non-error re-authentication suggestion; the success result is returned
\* only when every item was accepted.
C25_StopsAtFirstFailure ==
    /\ PostsInListOrder
    /\ (ExecuteReturned /\ LogFailed) =>
          /\ Len(Persisted) = Len(posts) - 1
          /\ logErr = PostError(posts[Len(posts)].food, posts[Len(posts)].resp)
          /\ execOut =
               IF Contains(logErr, "401") \/ Contains(logErr, "unauthorized")
               THEN ToolReturn(AuthExpired, NoError)
               ELSE ToolReturn(<<>>, <<"failed to log meal to Fitbit: ">> \o logErr)
    /\ (ExecuteReturned /\ posts # <<>> /\ ~LogFailed) =>
          /\ Len(posts) = Len(mealResult.parsedFoods)
          /\ execOut.err = NoError

\* the first item was accepted, the second was answered with status 500:
\* one item stays logged and the error is returned
C25_Witness ==
    /\ ExecuteReturned
    /\ Len(posts) = 2
    /\ posts[1].resp.status = 201
    /\ posts[2].resp.status = 500
    /\ Len(Persisted) = 1
    /\ execOut.err # NoError


\* the items of the merged list that parseFoodItemFlexible rejects
RejectedItems(allFoods) ==
    { j \in 1..Len(allFoods) : parseFoodItem(allFoods[j]).err # NoError }

\* C26: no request is sent for any item of a meal unless every item of the
\* merged list was normalized: whenever a request has been sent, no item of
\* the merged list is rejected and the normalized list is the whole list.
C26_NoPostUnlessAllNormalized ==
    posts # <<>> =>
        /\ RejectedItems(collectAllFoods(mealInput)) = {}
        /\ Len(mealResult.parsedFoods) = Len(collectAllFoods(mealInput))
        /\ mealResult.err = NoError

\* a valid item followed by one without calories, token present: the call
\* returned the item's error and nothing was sent
C26_Witness ==
    /\ ExecuteReturned
    /\ env.FITBIT_ACCESS_TOKEN # ""
    /\ env.FITBIT_USER_ID # ""
    /\ Len(collectAllFoods(mealInput)) = 2
    /\ RejectedItems(collectAllFoods(mealInput)) = {2}
    /\ execOut.err # NoError
    /\ posts = <<>>


\* ------------------------------------------------------------------------
\* C27: argument spans of the primary-grammar requests
\* ------------------------------------------------------------------------
\* the argument span of a primary request: from its "(" to the ")" that
\* extractJSONManually ends its arguments at
ArgumentSpan(t, request) ==
    LET open == PrimaryAt(t, request.at).end
    IN [from |-> open, to |-> ArgumentsEnd(t, open + 1, 1, FALSE, FALSE)]

\* position p lies in the span
InSpan(p, span) == span.from <= p /\ p <= span.to

\* C27: primary-grammar extraction never produces a request from a
\* directive inside the argument span of an earlier request: the argument
\* spans of the requests returned for one text are pairwise disjoint.
C27_PrimarySpansDisjoint ==
    (phase = "done" /\ FindPrimary(text, 1) # <<>>) =>
        \A k \in 1..Len(toolCalls) : \A l \in (k + 1)..Len(toolCalls) :
            LET first == ArgumentSpan(text, toolCalls[k])
                second == ArgumentSpan(text, toolCalls[l])
            IN /\ ~InSpan(toolCalls[l].at, first)
               /\ second.from > first.to


\* the input is the payload ParseToolCalls builds around an argument text
\* that is not JSON: {"input": <the text, quoted by %q>}
WrappedPayload ==
    /\ toolInput.kind = "text"
    /\ Len(toolInput.text) >= 9
    /\ SubSeq(toolInput.text, 1, 7) = <<"{", "\"", "input", "\"", ":", " ", "\"">>

\* C28: a tool call whose argument text was not valid JSON and reached
\* fitbit_log_meal as the wrapped payload never leads to a request: Execute
\* returns an error for it before the validation, whatever the token state.
C28_WrappedNeverLogged ==
    WrappedPayload =>
        /\ posts = <<>>
        /\ fpc \in { "Execute", "unmarshal", "returned" }
        /\ ExecuteReturned => execOut.err # NoError

\* the argument text {x wrapped by the parser, token and user id present:
\* the call returned the error about truncated input and sent nothing
C28_Witness ==
    /\ toolInput = RawText(WrapInput(<<"{", "x">>))
    /\ env.FITBIT_ACCESS_TOKEN # ""
    /\ env.FITBIT_USER_ID # ""
    /\ ExecuteReturned
    /\ execOut = ToolReturn(<<>>, TruncatedError(<<"{", "x">>))
    /\ posts = <<>>


\* ------------------------------------------------------------------------
\* C29: LoginTool.Execute and the stored access token
\* ------------------------------------------------------------------------
\* Execute reported that the user is authenticated
LoginReported ==
    /\ fpc \in { "returned", "checked" }
    /\ execOut.err = NoError
    /\ execOut.result \in { LoginSuccess, AlreadyAuthenticated }

\* the token endpoint answered the exchange with status 200 and a body
\* that decoded
ExchangeSucceeded ==
    /\ posts # <<>>
    /\ posts[Len(posts)].method = "POST"
    /\ exchangeCodeForToken(posts[Len(posts)].resp).err = NoError

\* C29: the stored access token changes only in a call of Execute that
\* completed the code-for-token exchange and reports success; on every
\* failure path it is unchanged; and whenever Execute reports successful
\* authentication the stored token is non-empty, so that a following
\* isAuthenticated check is true.
C29_TokenOnlyOnSuccessfulExchange ==
    /\ [][env'.FITBIT_ACCESS_TOKEN # env.FITBIT_ACCESS_TOKEN
            => (ExchangeSucceeded /\ execOut' = ToolReturn(LoginSuccess, NoError))]_vars
    /\ [](LoginReported => env.FITBIT_ACCESS_TOKEN # "")
    /\ []((LoginReported /\ fpc = "checked") => authenticated)


\* ------------------------------------------------------------------------
\* C30: what every LLM request carries, and how Run ends
\* ------------------------------------------------------------------------
\* the turns the conversation had grown to when request r-1 was over: its
\* length at that request plus the assistant turn of a response
TurnsAfterRequest(r) ==
    IF r = 0 THEN 0
    ELSE requests[r].convLen + (IF requests[r].ok THEN 1 ELSE 0)

\* Run has returned
RunEnded == pc \in { "returned", "done" }

\* C30: every LLM request carries a non-empty conversation whose last turn
\* has role user and was appended after the previous request; Run ends only
\* on end of input while reading user input or on a non-recoverable LLM
\* error, and never while tool calls of a response remain unexecuted.
C30_RequestsFollowUserTurns ==
    /\ \A r \in 1..Len(requests) :
         /\ requests[r].convLen >= 1
         /\ requests[r].convLen <= Len(conversation)
         /\ conversation[requests[r].convLen].Role = "user"
         /\ requests[r].convLen > TurnsAfterRequest(r - 1)
    /\ RunEnded =>
         /\ \/ eof /\ runErr = NoError
            \/ /\ requests # <<>>
               /\ ~requests[Len(requests)].ok
               /\ ~isRecoverableError(requests[Len(requests)].err)
               /\ runErr = <<"LLM error: ">> \o requests[Len(requests)].err
         /\ \A r \in 1..Len(requests) :
              requests[r].ok =>
                  /\ Len(ExecsOf(r)) = Len(requests[r].resp.ToolCalls)
                  /\ TurnsAfterRequest(r) + Len(ExecsOf(r)) <= Len(conversation)

\* a response with two tool calls, both executed, then a second request
\* after their result turns that fails for good: Run has returned the error
C30_Witness ==
    /\ pc = "returned"
    /\ Len(requests) = 2
    /\ requests[1].ok
    /\ Len(requests[1].resp.ToolCalls) = 2
    /\ Len(ExecsOf(1)) = 2
    /\ requests[2].convLen = TurnsAfterRequest(1) + 2
    /\ IsToolResultTurn(conversation[requests[2].convLen])
    /\ ~requests[2].ok
    /\ runErr # NoError

====
